---- MODULE Spec2Model ----
(***************************************************************************)
(* PixelVault: the identifier codec (backend/lib/hashids.ts), the image    *)
(* ingestion pipeline (backend/lib/image-processing.ts) and the serving /  *)
(* download dispatcher (app/api/images/[id]/...).                          *)
(*                                                                         *)
(* Strings are sequences of one-character strings: "42" is <<"4","2">>.    *)
(* Byte buffers are sequences of small naturals.                           *)
(***************************************************************************)
EXTENDS Integers, Sequences, FiniteSets, TLC

(***************************************************************************)
(* Characters and small string helpers                                     *)
(***************************************************************************)
Digits == <<"0","1","2","3","4","5","6","7","8","9">>
Upper == <<"A","B","C","D","E","F","G","H","I","J","K","L","M","N","O","P","Q","R","S","T","U","V","W","X","Y","Z">>
Lower == <<"a","b","c","d","e","f","g","h","i","j","k","l","m","n","o","p","q","r","s","t","u","v","w","x","y","z">>

Range(s) == {s[i] : i \in 1..Len(s)}

IndexOf(s, c) == CHOOSE i \in 1..Len(s) : s[i] = c

\* String.prototype.charCodeAt for the characters that occur in the model
charCodeAt(c) ==
  IF c \in Range(Digits) THEN 47 + IndexOf(Digits, c)
  ELSE IF c \in Range(Upper) THEN 64 + IndexOf(Upper, c)
  ELSE IF c \in Range(Lower) THEN 96 + IndexOf(Lower, c)
  ELSE IF c = " " THEN 32
  ELSE IF c = "+" THEN 43
  ELSE IF c = "-" THEN 45
  ELSE 46  \* "."

Without(s, set) == SelectSeq(s, LAMBDA c : c \notin set)
Only(s, set) == SelectSeq(s, LAMBDA c : c \in set)

\* s.slice(from) / s.slice(0, n), 0-based as in JavaScript
Drop(s, n) == IF n >= Len(s) THEN <<>> ELSE SubSeq(s, n + 1, Len(s))
Take(s, n) == IF n >= Len(s) THEN s ELSE SubSeq(s, 1, n)


(***************************************************************************)
(* JavaScript conversions used by the routes                               *)
(***************************************************************************)
\* a nullable number is a sequence: null, undefined and NaN are <<>>, the
\* number n is <<n>>
Null == <<>>
Some(n) == <<n>>

IsSpace(c) == c = " "
IsDigit(c) == c \in Range(Digits)
DigitValue(c) == IndexOf(Digits, c) - 1

RECURSIVE SkipSpaces(_)
SkipSpaces(s) == IF Len(s) > 0 /\ IsSpace(s[1]) THEN SkipSpaces(Drop(s, 1)) ELSE s

\* the value of the longest prefix of decimal digits, acc its value so far
RECURSIVE DigitsPrefix(_, _)
DigitsPrefix(s, acc) ==
  IF Len(s) > 0 /\ IsDigit(s[1])
  THEN DigitsPrefix(Drop(s, 1), 10 * acc + DigitValue(s[1]))
  ELSE acc

\* parseInt(s, 10): Null stands for NaN
parseInt(s) ==
  LET t      == SkipSpaces(s)
      signed == Len(t) > 0 /\ t[1] \in {"+", "-"}
      u      == IF signed THEN Drop(t, 1) ELSE t
  IN  IF Len(u) = 0 \/ ~IsDigit(u[1]) THEN Null
      ELSE IF signed /\ t[1] = "-" THEN Some(0 - DigitsPrefix(u, 0))
      ELSE Some(DigitsPrefix(u, 0))

\* Number.prototype.toString() of a non-negative integer, as in `${id}`
RECURSIVE Numeral(_)
Numeral(n) ==
  IF n < 10 THEN <<Digits[n + 1]>>
  ELSE Append(Numeral(n \div 10), Digits[(n % 10) + 1])


\* an id that parseInt produced and the routes accept: not NaN and > 0
PositiveOrNull(numericId) ==
  IF numericId # Null /\ numericId[1] > 0 THEN numericId ELSE Null

(***************************************************************************)
(* The Hashids library as configured by backend/lib/hashids.ts             *)
(*                                                                         *)
(* A value that the code binds with const/let and then uses several times  *)
(* is passed here as the argument of the operator that continues the       *)
(* computation, so that it is written, and evaluated, once.                *)
(***************************************************************************)
SALT == <<"p","i","x","e","l","v","a","u","l","t","-","s","e","c","r","e","t","-","s","a","l","t","-","c","h","a","n","g","e","-","i","n","-","p","r","o","d","u","c","t","i","o","n">>
MIN_LENGTH == 6

DefaultAlphabet == Lower \o Upper \o <<"1","2","3","4","5","6","7","8","9","0">>
DefaultSeps == <<"c","f","h","i","s","t","u","C","F","H","I","S","T","U">>

RECURSIVE ShuffleFrom(_, _, _, _, _)

\* the body of the shuffle loop once the salt character's code n is known
ShuffleSwap(a, salt, i, v1, p, n) ==
  LET p1 == p + n
      j  == (n + v1 + p1) % i
  IN  ShuffleFrom([a EXCEPT ![i + 1] = a[j + 1], ![j + 1] = a[i + 1]],
                  salt, i - 1, v1 + 1, p1)

ShuffleFrom(a, salt, i, v, p) ==
  IF i <= 0 THEN a
  ELSE ShuffleSwap(a, salt, i, v % Len(salt), p,
                   charCodeAt(salt[(v % Len(salt)) + 1]))

\* the library's consistent shuffle of an alphabet under a salt
Shuffle(a, salt) ==
  IF Len(salt) = 0 \/ Len(a) = 0 THEN a ELSE ShuffleFrom(a, salt, Len(a) - 1, 0, 0)

\* the constructor's last step: the guards are cut from the shuffled alphabet
HashidsGuards(alph, seps) ==
  LET guardCount == (Len(alph) + 11) \div 12   \* ceil(len / 12)
  IN  IF Len(alph) < 3
      THEN [seps |-> Drop(seps, guardCount), alphabet |-> alph,
            guards |-> Take(seps, guardCount)]
      ELSE [seps |-> seps, alphabet |-> Drop(alph, guardCount),
            guards |-> Take(alph, guardCount)]

\* the constructor's balancing of separators against the alphabet
HashidsBalance(alph0, seps0) ==
  LET sepsLength == (2 * Len(alph0) + 6) \div 7   \* ceil(len / 3.5)
      grow == (Len(seps0) = 0 \/ 2 * Len(alph0) > 7 * Len(seps0))
                /\ sepsLength > Len(seps0)
      diff == sepsLength - Len(seps0)
  IN  HashidsGuards(Shuffle(IF grow THEN Drop(alph0, diff) ELSE alph0, SALT),
                    IF grow THEN seps0 \o Take(alph0, diff) ELSE seps0)

\* new Hashids(SALT, MIN_LENGTH): the alphabet, separators and guards in use
HashidsSetup ==
  HashidsBalance(Without(DefaultAlphabet, Range(DefaultSeps)),
                 Shuffle(Only(DefaultSeps, Range(DefaultAlphabet)), SALT))

RECURSIVE toAlphabet(_, _)
toAlphabet(n, alph) ==
  IF n < Len(alph) THEN <<alph[n + 1]>>
  ELSE Append(toAlphabet(n \div Len(alph), alph), alph[(n % Len(alph)) + 1])

RECURSIVE fromAlphabet(_, _)
fromAlphabet(s, alph) ==
  IF Len(s) = 0 THEN 0
  ELSE fromAlphabet(Take(s, Len(s) - 1), alph) * Len(alph)
         + (IndexOf(alph, s[Len(s)]) - 1)

RECURSIVE NumbersIdInt(_, _)
NumbersIdInt(nums, i) ==
  IF i > Len(nums) THEN 0
  ELSE (nums[i] % (i - 1 + 100)) + NumbersIdInt(nums, i + 1)

RECURSIVE EncodeNumbers(_, _, _, _, _, _)

\* one number of the encode loop under its reshuffled alphabet alph1
EncodeNumber(h, nums, i, lottery, alph1, ret) ==
  LET last  == toAlphabet(nums[i], alph1)
      sepIx == (nums[i] % (charCodeAt(last[1]) + (i - 1))) % Len(h.seps)
  IN  EncodeNumbers(h, nums, i + 1, lottery, alph1,
                    IF i < Len(nums)
                    THEN ret \o last \o <<h.seps[sepIx + 1]>>
                    ELSE ret \o last)

\* the per-number loop of encode: appends each number's digits and a separator
EncodeNumbers(h, nums, i, lottery, alph, ret) ==
  IF i > Len(nums) THEN [alphabet |-> alph, ret |-> ret]
  ELSE EncodeNumber(h, nums, i, lottery,
                    Shuffle(alph, Take(<<lottery>> \o SALT \o alph, Len(alph))), ret)

RECURSIVE PadToMinLength(_, _)

\* one round of padding with the reshuffled alphabet alph1
PadWith(ret, alph1) ==
  LET half   == Len(alph1) \div 2
      ret1   == Drop(alph1, half) \o ret \o Take(alph1, half)
      excess == Len(ret1) - MIN_LENGTH
  IN  PadToMinLength(IF excess > 0
                     THEN Take(Drop(ret1, excess \div 2), MIN_LENGTH)
                     ELSE ret1,
                     alph1)

\* the padding loop of encode, up to the minimum length
PadToMinLength(ret, alph) ==
  IF Len(ret) >= MIN_LENGTH THEN ret ELSE PadWith(ret, Shuffle(alph, alph))

\* a guard before and, if still short, a guard after the encoded numbers
AddGuards(h, nid, ret) ==
  LET g1 == IF Len(ret) < MIN_LENGTH
            THEN <<h.guards[((nid + charCodeAt(ret[1])) % Len(h.guards)) + 1]>> \o ret
            ELSE ret
  IN  IF Len(ret) < MIN_LENGTH /\ Len(g1) < MIN_LENGTH
      THEN g1 \o <<h.guards[((nid + charCodeAt(g1[3])) % Len(h.guards)) + 1]>>
      ELSE g1

EncodePadded(h, nid, body) == PadToMinLength(AddGuards(h, nid, body.ret), body.alphabet)

EncodeFrom(h, nums, nid) ==
  LET lottery == h.alphabet[(nid % Len(h.alphabet)) + 1]
  IN  EncodePadded(h, nid, EncodeNumbers(h, nums, 1, lottery, h.alphabet, <<lottery>>))

\* encode under the setup h
EncodeWith(h, nums) ==
  IF Len(nums) = 0 THEN <<>> ELSE EncodeFrom(h, nums, NumbersIdInt(nums, 1))

\* hashids.encode(...numbers) for non-negative integers
HashidsEncode(nums) == EncodeWith(HashidsSetup, nums)

\* s.split(<any character of seps>): the pieces between separator characters
RECURSIVE SplitOn(_, _)
SplitOn(s, seps) ==
  IF \A i \in 1..Len(s) : s[i] \notin seps THEN <<s>>
  ELSE LET k == CHOOSE i \in 1..Len(s) :
                  s[i] \in seps /\ \A j \in 1..(i - 1) : s[j] \notin seps
       IN  <<Take(s, k - 1)>> \o SplitOn(Drop(s, k), seps)

RECURSIVE DecodeParts(_, _, _, _)

\* one part of the decode loop under its reshuffled alphabet alph1
DecodePart(parts, i, lottery, alph1) ==
  <<fromAlphabet(parts[i], alph1)>> \o DecodeParts(parts, i + 1, lottery, alph1)

DecodeParts(parts, i, lottery, alph) ==
  IF i > Len(parts) THEN <<>>
  ELSE DecodePart(parts, i, lottery,
                  Shuffle(alph, Take(<<lottery>> \o SALT \o alph, Len(alph))))

\* decode keeps the numbers only if encoding them gives the input back
DecodeChecked(h, id, result) ==
  IF EncodeWith(h, result) = id
  THEN [nums |-> result, threw |-> FALSE]
  ELSE [nums |-> <<>>, threw |-> FALSE]

DecodeBreakdown(h, id, breakdown) ==
  IF Len(breakdown) = 0 THEN [nums |-> <<>>, threw |-> FALSE]
  ELSE DecodeChecked(h, id,
                     DecodeParts(SplitOn(Drop(breakdown, 1), Range(h.seps)),
                                 1, breakdown[1], h.alphabet))

\* decode under the setup h
DecodeWith(h, id) ==
  IF Len(id) = 0 THEN [nums |-> <<>>, threw |-> FALSE]
  ELSE IF \E i \in 1..Len(id) :
            id[i] \notin (Range(h.alphabet) \cup Range(h.guards) \cup Range(h.seps))
  THEN [nums |-> <<>>, threw |-> TRUE]
  ELSE LET pieces == SplitOn(id, Range(h.guards))
       IN  DecodeBreakdown(h, id,
                           pieces[IF Len(pieces) = 3 \/ Len(pieces) = 2 THEN 2 ELSE 1])

\* hashids.decode(id): [threw, nums]; throws on a character outside the alphabet
HashidsDecode(id) == DecodeWith(HashidsSetup, id)

(***************************************************************************)
(* backend/lib/hashids.ts                                                  *)
(***************************************************************************)
\* A JavaScript value given as id: a number, whole or whole and a half
\* (whole |-> 1, half |-> TRUE is 1.5), or one of NaN, null, undefined.
Number(n) == [half |-> FALSE, kind |-> "number", whole |-> n]

\* hashids.encode(id) of one value: the empty string unless the value is a
\* non-negative integer (null and undefined give no numbers, NaN and a
\* fraction are not safe integers); encode itself never throws
HashidsEncodeValue(id) ==
  IF id.kind = "number" /\ id.whole >= 0 /\ ~id.half
  THEN HashidsEncode(<<id.whole>>)
  ELSE <<>>

\* encodeId(id): [threw, hash]
\* !id holds of 0, NaN, null and undefined; id <= 0 of the numbers at most 0
\* (and of null, which compares as 0)
encodeId(id) ==
  IF \/ (id.kind # "number" \/ (id.whole = 0 /\ ~id.half))
     \/ ((id.kind = "number" /\ (id.whole < 0 \/ (id.whole = 0 /\ ~id.half)))
           \/ id.kind = "null")
  THEN [threw |-> TRUE, hash |-> <<>>]
  ELSE [threw |-> FALSE, hash |-> HashidsEncodeValue(id)]

\* what decodeId makes of the library's answer
\* a decodeId whose catch block is missing: the library's error escapes
DecodedIdUncaught(decoded) ==
  IF decoded.threw THEN <<"Error", "uncaught">>
  ELSE IF Len(decoded.nums) = 0 THEN Null
  ELSE Some(decoded.nums[1])

DecodedId(decoded) ==
  IF decoded.threw THEN Null
  ELSE IF Len(decoded.nums) = 0 THEN Null
  ELSE Some(decoded.nums[1])

\* a decoder that reads the string as a decimal numeral
decodeIdAsNumeral(hash) == PositiveOrNull(parseInt(hash))

\* decodeId(hash): the decoded number, or Null
decodeId(hash) ==
  IF Len(hash) = 0 THEN Null ELSE DecodedId(HashidsDecode(hash))

isValidHash(hash) == decodeId(hash) # Null

(***************************************************************************)
(* Image buffers and the sharp operations of backend/lib/image-processing  *)
(*                                                                         *)
(* A buffer is a sequence of naturals.  A decodable image file is          *)
(* <<magic, width, height>> \o pixels \o <<encoder setting>>: its first    *)
(* byte tells the container format, as the first byte of a real file does. *)
(***************************************************************************)
THUMBNAIL_SIZE == 150

\* sharp(buffer).metadata().format by the file's first byte; "" when sharp
\* cannot read the input
SharpFormat(buf) ==
  IF Len(buf) < 4 THEN ""
  ELSE CASE buf[1] = 255 -> "jpeg"
         [] buf[1] = 137 -> "png"
         [] buf[1] = 82  -> "webp"
         [] buf[1] = 71  -> "gif"
         [] buf[1] = 60  -> "svg"
         [] buf[1] = 73  -> "tiff"
         [] buf[1] = 66  -> "bmp"
         [] OTHER -> ""

Decodable(buf) == SharpFormat(buf) # ""
PixelsOf(buf) == SubSeq(buf, 4, Len(buf) - 1)

MagicOf(format) ==
  CASE format = "jpeg" -> 255
    [] format = "png" -> 137
    [] OTHER -> 82

\* the bytes an encoder writes for the given pixels
EncodeImage(format, w, h, pixels, setting) ==
  <<MagicOf(format), w, h>> \o pixels \o <<setting>>

\* a resize with withoutEnlargement: true: a side the source is smaller in
\* keeps the source's size
resizeWithoutEnlargement(imageBuffer, width, height, format) ==
  IF ~Decodable(imageBuffer) THEN [threw |-> TRUE, data |-> <<>>]
  ELSE [threw |-> FALSE,
        data |-> EncodeImage(IF format = "png" THEN "png" ELSE "jpeg",
                             IF imageBuffer[2] < width THEN imageBuffer[2] ELSE width,
                             IF imageBuffer[3] < height THEN imageBuffer[3] ELSE height,
                             PixelsOf(imageBuffer),
                             IF format = "png" THEN 6 ELSE 100)]

\* resizeToDimensions(imageBuffer, width, height, format): [threw, data]
resizeToDimensions(imageBuffer, width, height, format) ==
  IF ~Decodable(imageBuffer) THEN [threw |-> TRUE, data |-> <<>>]
  ELSE [threw |-> FALSE,
        data |-> IF format = "png"
                 THEN EncodeImage("png", width, height, PixelsOf(imageBuffer), 6)
                 ELSE EncodeImage("jpeg", width, height, PixelsOf(imageBuffer), 100)]

\* getImageDimensions(imageBuffer): [threw, width, height]
getImageDimensions(imageBuffer) ==
  IF ~Decodable(imageBuffer) THEN [threw |-> TRUE, width |-> 0, height |-> 0]
  ELSE [threw |-> FALSE, width |-> imageBuffer[2], height |-> imageBuffer[3]]

\* detectMimeType(imageBuffer): never throws, falls back to image/jpeg
detectMimeType(imageBuffer) ==
  LET format == SharpFormat(imageBuffer)
  IN  CASE format = "jpeg" -> "image/jpeg"
        [] format = "png"  -> "image/png"
        [] format = "webp" -> "image/webp"
        [] format = "gif"  -> "image/gif"
        [] format = "svg"  -> "image/svg+xml"
        [] format = "tiff" -> "image/tiff"
        [] format = "bmp"  -> "image/bmp"
        [] OTHER -> "image/jpeg"

(***************************************************************************)
(* crypto.createHash('md5').update(buffer).digest('hex'), as a checksum of *)
(* every byte of the buffer written in hexadecimal                         *)
(***************************************************************************)
HexDigits == <<"0","1","2","3","4","5","6","7","8","9","a","b","c","d","e","f">>

RECURSIVE Checksum(_, _)
Checksum(buf, acc) ==
  IF Len(buf) = 0 THEN acc
  ELSE Checksum(Drop(buf, 1), (acc * 31 + buf[1] + 1) % 65536)

RECURSIVE Hex(_, _)
Hex(n, width) ==
  IF width = 0 THEN <<>>
  ELSE Append(Hex(n \div 16, width - 1), HexDigits[(n % 16) + 1])

Md5Hex(buf) == Hex(Checksum(buf, 7), 4)

\* the template literal `"${etag}"`
Quoted(s) == <<"\"">> \o s \o <<"\"">>

\* sharp's resize(maxSize, maxSize, {fit: 'inside', withoutEnlargement: true}):
\* the output dimensions, rounded to the nearest pixel and at least 1
RoundDiv(a, b) == (2 * a + b) \div (2 * b)
AtLeastOne(n) == IF n < 1 THEN 1 ELSE n
\* fit: 'inside' without withoutEnlargement: the longer side becomes maxSize
FitInsideEnlarging(w, h, maxSize) ==
  IF w >= h
  THEN [width |-> maxSize, height |-> AtLeastOne(RoundDiv(h * maxSize, w))]
  ELSE [width |-> AtLeastOne(RoundDiv(w * maxSize, h)), height |-> maxSize]

FitInside(w, h, maxSize) ==
  IF w <= maxSize /\ h <= maxSize THEN [width |-> w, height |-> h]
  ELSE IF w >= h
  THEN [width |-> maxSize, height |-> AtLeastOne(RoundDiv(h * maxSize, w))]
  ELSE [width |-> AtLeastOne(RoundDiv(w * maxSize, h)), height |-> maxSize]

\* a thumbnail conversion that fits the image inside the square (fit:
\* 'inside') instead of covering it
convertToWebPContain(imageBuffer, maxSize, exactSize) ==
  IF ~Decodable(imageBuffer) THEN [threw |-> TRUE, data |-> <<>>]
  ELSE LET dims == IF exactSize # 0
                   THEN FitInside(imageBuffer[2], imageBuffer[3], exactSize)
                   ELSE IF maxSize # 0
                   THEN FitInside(imageBuffer[2], imageBuffer[3], maxSize)
                   ELSE [width |-> imageBuffer[2], height |-> imageBuffer[3]]
       IN  [threw |-> FALSE,
            data |-> EncodeImage("webp", dims.width, dims.height,
                                 PixelsOf(imageBuffer),
                                 IF exactSize # 0 THEN 85 ELSE 92)]

\* convertToWebP(imageBuffer, maxSize, exactSize): [threw, data]; an argument
\* left undefined is 0
convertToWebP(imageBuffer, maxSize, exactSize) ==
  IF ~Decodable(imageBuffer) THEN [threw |-> TRUE, data |-> <<>>]
  ELSE LET webpQuality == IF exactSize # 0 THEN 85 ELSE 92
           w == imageBuffer[2]
           h == imageBuffer[3]
           dims == IF exactSize # 0 THEN [width |-> exactSize, height |-> exactSize]
                   ELSE IF maxSize # 0 THEN FitInside(w, h, maxSize)
                   ELSE [width |-> w, height |-> h]
       IN  [threw |-> FALSE,
            data |-> EncodeImage("webp", dims.width, dims.height,
                                 PixelsOf(imageBuffer), webpQuality)]

(***************************************************************************)
(* The record store (table generated_images) and the read functions of     *)
(* backend/lib/images                                                      *)
(***************************************************************************)
MaxImages == 2

ImageIds == 1..MaxImages

NoRow == [exists |-> FALSE, is_deleted |-> FALSE,
          original_image_data |-> <<>>, original_mime_type |-> ""]

\* a row written before migration 010 added the original_* columns
LegacyRow == [exists |-> TRUE, is_deleted |-> FALSE,
              original_image_data |-> <<>>, original_mime_type |-> ""]

\* the row the upload path persists for a fully processed image
RowOf(processed) ==
  [exists |-> TRUE, is_deleted |-> FALSE,
   original_image_data |-> processed.originalImage,
   original_mime_type |-> processed.originalMimeType]

\* SELECT ... WHERE id = $1 AND (is_deleted = false OR is_deleted IS NULL)
SelectLive(imgs, id) ==
  IF id \in DOMAIN imgs /\ imgs[id].exists /\ ~imgs[id].is_deleted
  THEN <<imgs[id]>> ELSE <<>>

Failure(error) == [data |-> <<>>, error |-> error, success |-> FALSE, mimeType |-> ""]

\* getOriginalImageFile(id)
getOriginalImageFile(imgs, id) ==
  LET rows == SelectLive(imgs, id)
  IN  IF Len(rows) = 0 THEN Failure("Image not found")
      ELSE IF Len(rows[1].original_image_data) = 0
      THEN Failure("Image data not available")
      ELSE [data |-> rows[1].original_image_data, error |-> "",
            success |-> TRUE,
            mimeType |-> rows[1].original_mime_type]

\* getResizedOriginalImage(id, width, height)
getResizedOriginalImage(imgs, id, width, height) ==
  LET rows == SelectLive(imgs, id)
  IN  IF Len(rows) = 0 THEN Failure("Image not found")
      ELSE IF Len(rows[1].original_image_data) = 0
      THEN Failure("Original image data not available")
      ELSE LET format  == IF rows[1].original_mime_type = "image/png"
                          THEN "png" ELSE "jpeg"
               resized == resizeToDimensions(rows[1].original_image_data,
                                             width, height, format)
           IN  IF resized.threw THEN Failure("Failed to resize image")
               ELSE [data |-> resized.data, error |-> "", success |-> TRUE,
                     mimeType |-> IF format = "png" THEN "image/png"
                                  ELSE "image/jpeg"]

\* getImageById(id, trackView = false)
getImageById(imgs, id) ==
  LET rows == SelectLive(imgs, id)
  IN  IF Len(rows) = 0 THEN Failure("Image not found")
      ELSE [data |-> <<id>>, error |-> "", success |-> TRUE, mimeType |-> ""]

(***************************************************************************)
(* The routes under app/api/images/[id] and the image page's metadata      *)
(***************************************************************************)
NoUser == ""

\* a session check that lets the user id 'anonymous' through
UnauthenticatedNoUserOnly(userId) == userId = NoUser

\* !userId || userId === 'anonymous'
Unauthenticated(userId) == userId = NoUser \/ userId = "anonymous"

\* a fallback that is taken whenever the parameter reads as a positive number
ResolveDecodedNumeralFirst(param, id) ==
  IF PositiveOrNull(parseInt(param)) # Null THEN PositiveOrNull(parseInt(param)) ELSE id

\* the fallback of the routes when decodeId returned null: parseInt, kept if > 0
ResolveDecoded(param, id) ==
  IF id = Null THEN PositiveOrNull(parseInt(param)) ELSE id

\* a resolution that parses first and decodes only what does not parse
ResolveIdParseFirst(param) ==
  LET numericId == PositiveOrNull(parseInt(param))
  IN  IF numericId # Null THEN numericId ELSE decodeId(param)

\* decodeId first, then parseInt: the id the route goes on with, or Null
ResolveId(param) == ResolveDecoded(param, decodeId(param))

\* !id || id <= 0
InvalidId(id) == id = Null \/ id[1] = 0 \/ id[1] <= 0

\* the opaque strings of the records the store can hold, of an id beyond
\* them, and of 21, whose opaque string begins with a decimal digit
OpaqueIds == [n \in (1..(MaxImages + 1)) \cup {21} |-> encodeId(Number(n)).hash]

\* identifiers a client may put in the URL: opaque strings, legacy numerals,
\* and malformed ones
IdParams ==
  {OpaqueIds[n] : n \in DOMAIN OpaqueIds}
    \cup {Numeral(n) : n \in 1..MaxImages}
    \cup {<<"4","2">>, <<>>, <<"0">>, <<"-","5">>, <<"a","b","c">>,
          <<"1","a","b","c">>, HashidsEncode(<<0>>)}

\* the numeral of 200001, which is also the opaque string of 61364174
LegacyNumeral == <<"2","0","0","0","0","1">>

\* identifiers of old numeric links: a numeral that is a valid opaque string
\* and numerals that are not
LegacyParams == {LegacyNumeral, <<"2","0","0","0","0","2">>, <<"0","0","0","0","0","9">>}
                  \cup {Numeral(n) : n \in 1..MaxImages}

\* ResolveId over the identifiers of the model, computed once
Resolved == {<<param, ResolveId(param)>> : param \in IdParams \cup LegacyParams}
ResolveParam(param) == (CHOOSE t \in Resolved : t[1] = param)[2]

NoDisposition == [type |-> "", filename |-> <<>>]

\* what happens to the lookup of a request: nothing unusual, the library
\* catches an error and reports its message, or the awaited call throws
NoFault == [kind |-> "none", message |-> ""]

\* the library's answer when it caught an error during the lookup
Awaited(fault, result) ==
  IF fault.kind = "failure" THEN Failure(fault.message) ELSE result

\* whether the awaited lookup throws
Throws(fault) == fault.kind = "throw"

\* a response that carries a text and no image; lookedUp is the id given to
\* the record lookup, served the buffer the ETag was computed from, and
\* details the field of that name in a JSON error body
TextResponse(status, text) ==
  [body |-> <<>>, data |-> <<>>, status |-> status, text |-> text,
   etag |-> <<>>, contentType |-> "", contentLength |-> <<>>,
   disposition |-> NoDisposition, lookedUp |-> Null, served |-> <<>>, details |-> ""]

\* a 304 that sends the image all the same
NotModifiedWithBody(id, buffer) ==
  [TextResponse(304, "") EXCEPT !.lookedUp = id, !.served = buffer, !.body = buffer]

\* new NextResponse(null, { status: 304 })
NotModified(id, buffer) ==
  [TextResponse(304, "") EXCEPT !.lookedUp = id, !.served = buffer]

\* `attachment; filename="image-${id}-${rendition}.${extension}"`
Attachment(id, rendition, extension) ==
  [type |-> "attachment",
   filename |-> <<"i","m","a","g","e","-">> \o Numeral(id) \o <<"-">>
                  \o rendition \o <<".">> \o extension]

\* a 200 that labels every image as JPEG
ImageResponseAsJpeg(id, buffer, mimeType, etag, rendition, extension) ==
  [body |-> buffer, data |-> <<>>, status |-> 200, text |-> "",
   etag |-> Quoted(etag),
   contentType |-> "image/jpeg",
   contentLength |-> Numeral(Len(buffer)),
   disposition |-> Attachment(id[1], rendition, extension),
   lookedUp |-> id, served |-> buffer, details |-> ""]

\* new NextResponse(result.data, { status: 200, headers })
ImageResponse(id, buffer, mimeType, etag, rendition, extension) ==
  [body |-> buffer, data |-> <<>>, status |-> 200, text |-> "",
   etag |-> Quoted(etag),
   contentType |-> IF mimeType = "" THEN "image/jpeg" ELSE mimeType,
   contentLength |-> Numeral(Len(buffer)),
   disposition |-> Attachment(id[1], rendition, extension),
   lookedUp |-> id, served |-> buffer, details |-> ""]

\* a comparison of the header with the bare digest
ETagMatchesUnquoted(ifNoneMatch, etag) == ifNoneMatch = etag

\* request.headers.get('if-none-match') === `"${etag}"`
ETagMatches(ifNoneMatch, etag) == ifNoneMatch = Quoted(etag)

\* a lookup failure that is always reported as a server error
AlwaysServerError(error) == 500

\* status of a failed lookup in the original route
OriginalErrorStatus(error) ==
  IF error = "Image not found" \/ error = "Image data not available" THEN 404 ELSE 500

OriginalExtension(mimeType) ==
  LET m == IF mimeType = "" THEN "image/jpeg" ELSE mimeType
  IN  CASE m = "image/png" -> <<"p","n","g">>
        [] m = "image/jpeg" -> <<"j","p","g">>
        [] m = "image/jpg" -> <<"j","p","g">>
        [] m = "image/webp" -> <<"w","e","b","p">>
        [] OTHER -> <<"j","p","g">>

\* the original route from the ETag on: 304, or 200 with the file
OriginalServe(request, id, result, etag) ==
  IF ETagMatches(request.ifNoneMatch, etag)
  THEN NotModified(id, result.data)
  ELSE ImageResponse(id, result.data, result.mimeType, etag,
                     <<"o","r","i","g","i","n","a","l">>,
                     OriginalExtension(result.mimeType))

\* the original route once getOriginalImageFile has answered
OriginalLoaded(request, id, result) ==
  IF ~result.success
  THEN [TextResponse(OriginalErrorStatus(result.error), result.error)
          EXCEPT !.lookedUp = id]
  ELSE OriginalServe(request, id, result, Md5Hex(result.data))

\* the original route once the parameter has been resolved to id
OriginalResolved(request, imgs, id) ==
  IF InvalidId(id) THEN TextResponse(400, "Invalid image ID")
  ELSE IF Throws(request.fault)
  THEN [TextResponse(500, "Internal server error") EXCEPT !.lookedUp = id]
  ELSE OriginalLoaded(request, id,
                      Awaited(request.fault, getOriginalImageFile(imgs, id[1])))

\* an original route that validates the identifier before it authorises
OriginalGETResolveFirst(request, imgs) ==
  IF InvalidId(ResolveParam(request.id))
  THEN TextResponse(400, "Invalid image ID")
  ELSE IF Unauthenticated(request.userId)
  THEN TextResponse(401, "Authentication required")
  ELSE OriginalResolved(request, imgs, ResolveParam(request.id))

\* GET /api/images/[id]/original
OriginalGET(request, imgs) ==
  IF Unauthenticated(request.userId)
  THEN TextResponse(401, "Authentication required")
  ELSE OriginalResolved(request, imgs, ResolveParam(request.id))

\* a status mapping that knows only the record-not-found failure
NotFoundOnly(error) == IF error = "Image not found" THEN 404 ELSE 500

\* status of a failed lookup in the 9x16 route
DownloadErrorStatus(error) ==
  IF error = "Image not found" \/ error = "Original image data not available"
  THEN 404 ELSE 500

DownloadExtension(mimeType) ==
  LET m == IF mimeType = "" THEN "image/jpeg" ELSE mimeType
  IN  CASE m = "image/png" -> <<"p","n","g">>
        [] OTHER -> <<"j","p","g">>

\* the 9x16 route from the ETag on: 304, or 200 with the resized file
DownloadServe(request, id, result, etag) ==
  IF ETagMatches(request.ifNoneMatch, etag)
  THEN NotModified(id, result.data)
  ELSE ImageResponse(id, result.data, result.mimeType, etag,
                     <<"9","x","1","6","-","1","0","8","0","x","1","9","2","0">>,
                     DownloadExtension(result.mimeType))

\* the 9x16 route once getResizedOriginalImage has answered
DownloadLoaded(request, id, result) ==
  IF ~result.success
  THEN [TextResponse(DownloadErrorStatus(result.error), result.error)
          EXCEPT !.lookedUp = id]
  ELSE DownloadServe(request, id, result, Md5Hex(result.data))

\* the 9x16 route once the parameter has been resolved to id
DownloadResolved(request, imgs, id) ==
  IF InvalidId(id) THEN TextResponse(400, "Invalid image ID")
  ELSE IF Throws(request.fault)
  THEN [TextResponse(500, "Internal server error") EXCEPT !.lookedUp = id]
  ELSE DownloadLoaded(request, id,
                      Awaited(request.fault,
                              getResizedOriginalImage(imgs, id[1], 1080, 1920)))

\* GET /api/images/[id]/download/9x16
Download9x16GET(request, imgs) ==
  IF Unauthenticated(request.userId)
  THEN TextResponse(401, "Authentication required")
  ELSE DownloadResolved(request, imgs, ResolveParam(request.id))

\* the image route once getImageById has answered
ImageLoaded(id, result) ==
  IF ~result.success
  THEN [TextResponse(IF result.error = "Image not found" THEN 404 ELSE 500,
                     result.error) EXCEPT !.lookedUp = id]
  ELSE [TextResponse(200, "") EXCEPT !.data = result.data, !.lookedUp = id]

\* the image route once the parameter has been resolved to id
ImageResolved(request, imgs, id) ==
  IF InvalidId(id) THEN TextResponse(400, "Invalid image ID")
  ELSE IF Throws(request.fault)
  THEN [TextResponse(500, "Internal server error")
          EXCEPT !.details = request.fault.message, !.lookedUp = id]
  ELSE ImageLoaded(id, Awaited(request.fault, getImageById(imgs, id[1])))

\* GET /api/images/[id]: JSON { success, data | error }
ImageGET(request, imgs) == ImageResolved(request, imgs, ResolveParam(request.id))

\* the page title once getImageById has answered
MetadataLoaded(id, result) ==
  IF ~result.success \/ result.data = <<>>
  THEN [TextResponse(0, "Image Not Found - PixelVault") EXCEPT !.lookedUp = id]
  ELSE [TextResponse(0, "Free Download | PixelVault")
          EXCEPT !.data = result.data, !.lookedUp = id]

\* generateMetadata once the parameter has been resolved to id
MetadataResolved(request, imgs, id) ==
  IF id = Null \/ id[1] = 0
  THEN TextResponse(0, "Image Not Found - PixelVault")
  ELSE IF Throws(request.fault)
  THEN [TextResponse(0, "Image - PixelVault") EXCEPT !.lookedUp = id]
  ELSE MetadataLoaded(id, Awaited(request.fault, getImageById(imgs, id[1])))

\* generateMetadata of the image page: the page title; it has no status (0)
generateMetadata(request, imgs) ==
  MetadataResolved(request, imgs, ResolveParam(request.id))

(***************************************************************************)
(* processUploadedImage: the value it returns when every step succeeded    *)
(***************************************************************************)
\* generateBlurHash(imageBuffer): [threw, hash]; a short string computed from
\* the pixels of the 32x32 cover-fit copy
generateBlurHash(imageBuffer) ==
  IF ~Decodable(imageBuffer) THEN [threw |-> TRUE, hash |-> <<>>]
  ELSE [threw |-> FALSE, hash |-> Hex(Checksum(PixelsOf(imageBuffer), 4), 6)]

\* a result that keeps the converted image in place of the uploaded bytes
ProcessedImageConverted(imageBuffer, dims, originalMimeType, blurhash, thumbnailWebP, imageWebP) ==
  [width |-> dims.width,
   height |-> dims.height,
   originalImage |-> imageWebP,
   originalMimeType |-> originalMimeType,
   blurhash |-> blurhash,
   thumbnailWebP |-> thumbnailWebP,
   imageWebP |-> imageWebP,
   originalSize |-> Len(imageWebP)]

\* the object literal returned at the end of processUploadedImage
ProcessedImage(imageBuffer, dims, originalMimeType, blurhash, thumbnailWebP, imageWebP) ==
  [width |-> dims.width,
   height |-> dims.height,
   originalImage |-> imageBuffer,
   originalMimeType |-> originalMimeType,
   blurhash |-> blurhash,
   thumbnailWebP |-> thumbnailWebP,
   imageWebP |-> imageWebP,
   originalSize |-> Len(imageBuffer)]

\* processUploadedImage(imageBuffer) run to its end without a failure
processUploadedImage(imageBuffer) ==
  ProcessedImage(imageBuffer,
                 getImageDimensions(imageBuffer),
                 detectMimeType(imageBuffer),
                 generateBlurHash(imageBuffer).hash,
                 convertToWebP(imageBuffer, 0, THUMBNAIL_SIZE).data,
                 convertToWebP(imageBuffer, 0, 0).data)

(***************************************************************************)
(* Promise.all over the two conversions                                    *)
(***************************************************************************)
\* a combinator that waits for both promises and fulfils whatever they did
PromiseAllSettled(a, b) ==
  IF a = "pending" \/ b = "pending" THEN "pending" ELSE "fulfilled"

\* the state of Promise.all([a, b]) given the states of its two promises:
\* rejected as soon as one is rejected, fulfilled once both are fulfilled
PromiseAll(a, b) ==
  IF a = "rejected" \/ b = "rejected" THEN "rejected"
  ELSE IF a = "fulfilled" /\ b = "fulfilled" THEN "fulfilled"
  ELSE "pending"

(***************************************************************************)
(* Inputs of the model                                                     *)
(***************************************************************************)
\* uploads: a PNG of 100x80 and a JPEG of 4000x3000
PngFile == <<137, 100, 80, 11, 12, 0>>
JpegFile == <<255, 4000, 3000, 21, 0>>
UploadFiles == {PngFile, JpegFile}

\* bytes that are no image
CorruptFile == <<0, 1, 2, 3>>

Endpoints == {"original", "9x16", "image", "page"}
Protected == {"original", "9x16"}
UserIds == {NoUser, "anonymous", "user-1"}

StaleETag == Quoted(<<"0","0","0","0">>)

MaxCodecId == 40
CodecIds == 1..MaxCodecId \cup {1000, 2147483647}

\* the sharp calls of one ingestion that the environment may make fail
\* (memory, pixel limits) although the file's header is readable
Steps == {"dimensions", "mime", "blurhash", "thumbnail", "full"}

VARIABLES
  images,        \* the table generated_images: id -> row
  nextId,        \* the next value of the table's serial id
  lastRequest,   \* the request handled last since the table last changed
  lastResponse,  \* the response to it
  cpc, cid, chash, cdec, cvalid,   \* a caller of the codec: encode, then decode
  ipc,           \* where processUploadedImage stands
  ibuf,          \* its argument imageBuffer
  ifaults,       \* the steps of this call in which sharp fails
  ilocals,       \* its locals width/height, originalMimeType, blurhash
  thumbTask,     \* the promise of convertToWebP(imageBuffer, undefined, THUMBNAIL_SIZE)
  fullTask,      \* the promise of convertToWebP(imageBuffer, undefined)
  iresult,       \* the promise processUploadedImage returned to its caller
  isettled,      \* how many times that promise was settled
  rpc, rcall, rresult,  \* a caller of the image functions: its call, the result
  favorites,     \* the table favorites, oldest row first
  nextFavoriteId,  \* the next value of its serial id
  fcall,         \* the favorites request handled last since a table last changed
  fresult,       \* the response to it
  users,         \* the table users, oldest row first
  nextUserId,    \* the next value of its serial id
  ucall,         \* the sign-up or sign-in handled last
  uresult,       \* its outcome
  isLiked,       \* the heart of an ImageCard or ImageModal: useState(false)
  signInModal,   \* showSignInModal and pendingFavorite of the component
  clicks,        \* how many times the heart was clicked
  inflight,      \* the favorite requests of handleLike that have not returned
  mpc,           \* where runMigrations stands
  migrationsDir, \* the file names in scripts/migrations
  schemaMigrations, \* the table schema_migrations: the versions recorded
  appliedVersions, \* the local appliedVersions of the run
  mqueue,        \* the files the for loop has still to visit
  mtxn,          \* the version whose transaction is open on the client
  mlog,          \* the statements the run has sent so far
  mclient,       \* the pool client of the run: none, held, released
  merror,        \* whether runMigrations has thrown
  dpc,           \* where duplicateDatabase stands
  denv,          \* process.env as the script sees it
  dbs,           \* the databases: for each host and name, its tables and their rows
  dbefore,       \* the databases as they were when the script started
  dtables,       \* the tables the script has still to process
  currentPage,   \* the page of the gallery: 0 is the first 30 images
  searchQuery,   \* the q parameter of the gallery URL
  queries,       \* the React Query cache: the state of the query of each search and page
  windows        \* the limit and offset computed for each page since pagination was reset

vars == <<images, nextId, lastRequest, lastResponse, cpc, cid, chash, cdec, cvalid,
          ipc, ibuf, ifaults, ilocals, thumbTask, fullTask, iresult, isettled,
          rpc, rcall, rresult,
          favorites, nextFavoriteId, fcall, fresult,
          users, nextUserId, ucall, uresult,
          isLiked, signInModal, clicks, inflight,
          mpc, migrationsDir, schemaMigrations, appliedVersions, mqueue, mtxn, mlog, mclient, merror,
          dpc, denv, dbs, dbefore, dtables,
          currentPage, searchQuery, queries, windows>>

storeVars == <<images, nextId>>
requestVars == <<lastRequest, lastResponse>>
codecVars == <<cpc, cid, chash, cdec, cvalid>>
ingestVars == <<ipc, ibuf, ifaults, ilocals, thumbTask, fullTask, iresult, isettled>>
resizeVars == <<rpc, rcall, rresult>>
favVars == <<favorites, nextFavoriteId, fcall, fresult>>
userVars == <<users, nextUserId, ucall, uresult>>
likeVars == <<isLiked, signInModal, clicks, inflight>>
migVars == <<mpc, migrationsDir, schemaMigrations, appliedVersions, mqueue, mtxn, mlog, mclient, merror>>
dupVars == <<dpc, denv, dbs, dbefore, dtables>>
galleryVars == <<currentPage, searchQuery, queries, windows>>

\* the variables of the image store, routes, codec and image functions, and
\* those of the rest of the application
coreVars == <<storeVars, requestVars, codecVars, ingestVars, resizeVars>>
laterVars == <<userVars, likeVars, migVars, dupVars, galleryVars>>
appVars == <<favVars, laterVars>>
otherThanFavorites == <<requestVars, codecVars, ingestVars, resizeVars, laterVars>>
otherThanUsers == <<coreVars, favVars, likeVars, migVars, dupVars, galleryVars>>
otherThanLikes == <<coreVars, favVars, userVars, migVars, dupVars, galleryVars>>
otherThanMigrations == <<coreVars, favVars, userVars, likeVars, dupVars, galleryVars>>
otherThanDuplicate == <<coreVars, favVars, userVars, likeVars, migVars, galleryVars>>
otherThanGallery == <<coreVars, favVars, userVars, likeVars, migVars, dupVars>>

NoRequest == [id |-> <<>>, userId |-> NoUser, fault |-> NoFault, ifNoneMatch |-> <<>>,
              endpoint |-> ""]
NoResponse == TextResponse(0, "")

\* the validators a client may hold for an endpoint: none, a stale one, the
\* ETag of the last response and, for the original, the ETags of the
\* originals in the table
Validators(endpoint, prev, imgs) ==
  {<<>>, StaleETag, prev.etag}
    \cup {Quoted(Md5Hex(imgs[i].original_image_data)) :
            i \in {j \in ImageIds : /\ endpoint = "original"
                                    /\ imgs[j].exists
                                    /\ imgs[j].original_image_data # <<>>}}

\* the requests a client may send to an endpoint after the response prev
Requests(endpoint, prev, imgs) ==
  [id : IdParams, userId : UserIds, fault : {NoFault},
   ifNoneMatch : Validators(endpoint, prev, imgs), endpoint : {endpoint}]

\* no call of an image function is under way
NoCall == [fn |-> ""]

\* the page sizes of the gallery
INITIAL_LIMIT == 30
PAGE_SIZE == 50

\* the pages of the model
MaxPage == 2

\* a pagination that takes every page to be PAGE_SIZE long
getLimitAndOffsetEvenPages(page) ==
  IF page = 0 THEN [limit |-> INITIAL_LIMIT, offset |-> 0]
  ELSE [limit |-> PAGE_SIZE, offset |-> page * PAGE_SIZE]

\* getLimitAndOffset() for currentPage = page
getLimitAndOffset(page) ==
  IF page = 0 THEN [limit |-> INITIAL_LIMIT, offset |-> 0]
  ELSE [limit |-> PAGE_SIZE, offset |-> INITIAL_LIMIT + (page - 1) * PAGE_SIZE]

\* the searches of the model, and the queries useQuery may hold: the query
\* key carries the search and the limit and offset of the page
Searches == {"", "cats"}
QueryKeys == Searches \X (0..MaxPage)

\* the defaults written into duplicatescript.js
DefaultHost == "34.121.114.117"
DefaultDatabase == "images"

\* the variables of process.env the two configurations read; an unset
\* variable and an empty one are both falsy and are both "".  Before the
\* script is started the model holds no environment and no databases.
EnvNames ==
  {"SOURCE_DATABASE_HOST", "DATABASE_HOST", "SOURCE_DATABASE_NAME", "DATABASE_NAME",
   "TARGET_DATABASE_HOST", "TARGET_DATABASE_NAME"}

\* the databases of the model, each named by host and database name, and
\* the tables a database may hold, in the order of ORDER BY table_name
DbIds == {DefaultHost, "localhost"} \X {DefaultDatabase, "copy"}
TableNames == <<"favorites", "generated_images", "schema_migrations">>
NoTable == [exists |-> FALSE, rows |-> {}]
NoTables == [t \in Range(TableNames) |-> NoTable]

\* file names and versions are sequences of characters
DotSql == <<".","s","q","l">>

\* the directories of the model: migrations whose file order differs from
\* the order of their versions ("1-b.sql" sorts before "1.sql"), and a file
\* that is not a migration
MigrationFiles ==
  { <<"0","1","0">> \o DotSql, <<"0","1","1">> \o DotSql,
    <<"1">> \o DotSql, <<"1","-","b">> \o DotSql,
    <<"n","o","t","e","s",".","m","d">> }

\* the versions schema_migrations may hold before the run
RecordedBefore == { <<"0","1","0">>, <<"0","1","1">>, <<"1">> }

NoLocals == [width |-> 0, height |-> 0, originalMimeType |-> "", blurhash |-> <<>>]
NotStarted == [data |-> <<>>, state |-> "notstarted"]
Pending == [state |-> "pending", value |-> <<>>]

Init ==
  /\ \/ images = [i \in ImageIds |-> NoRow] /\ nextId = 1
     \/ images = [i \in ImageIds |-> IF i = 1 THEN LegacyRow ELSE NoRow] /\ nextId = 2
  /\ lastRequest = NoRequest
  /\ lastResponse = NoResponse
  /\ cpc = "idle" /\ cid = 0 /\ chash = [threw |-> FALSE, hash |-> <<>>]
  /\ cdec = Null /\ cvalid = FALSE
  /\ ipc = "idle" /\ ibuf = <<>> /\ ifaults = {} /\ ilocals = NoLocals
  /\ thumbTask = NotStarted /\ fullTask = NotStarted
  /\ iresult = Pending /\ isettled = 0
  /\ rpc = "idle" /\ rcall = NoCall /\ rresult = NoCall
  /\ favorites = <<>> /\ nextFavoriteId = 1 /\ fcall = NoCall /\ fresult = NoCall
  /\ users = <<>> /\ nextUserId = 1 /\ ucall = NoCall /\ uresult = NoCall
  /\ isLiked = FALSE /\ signInModal = FALSE /\ clicks = 0 /\ inflight = {}
  /\ mpc = "idle" /\ migrationsDir = {} /\ schemaMigrations = {}
  /\ appliedVersions = {} /\ mqueue = <<>> /\ mtxn = <<>> /\ mlog = <<>>
  /\ mclient = "none" /\ merror = FALSE
  /\ dpc = "idle" /\ denv = <<>> /\ dbs = <<>> /\ dbefore = <<>> /\ dtables = <<>>
  /\ currentPage = 0 /\ searchQuery = "" /\ queries = <<>> /\ windows = <<>>

(***************************************************************************)
(* The dispatcher: uploads, soft deletes and requests                      *)
(***************************************************************************)
\* the upload path: ingest the file and persist the fully processed image
Upload(file) ==
  /\ nextId \in ImageIds
  /\ Decodable(file)
  /\ images' = [images EXCEPT ![nextId] = RowOf(processUploadedImage(file))]
  /\ nextId' = nextId + 1
  /\ lastRequest' = NoRequest
  /\ lastResponse' = NoResponse
  /\ fcall' = NoCall /\ fresult' = NoCall
  /\ UNCHANGED <<codecVars, ingestVars, resizeVars, favorites, nextFavoriteId,
               laterVars>>

\* UPDATE generated_images SET is_deleted = true WHERE id = $1
SoftDelete(id) ==
  /\ images[id].exists /\ ~images[id].is_deleted
  /\ images' = [images EXCEPT ![id].is_deleted = TRUE]
  /\ lastRequest' = NoRequest
  /\ lastResponse' = NoResponse
  /\ fcall' = NoCall /\ fresult' = NoCall
  /\ UNCHANGED <<nextId, codecVars, ingestVars, resizeVars, favorites, nextFavoriteId,
               laterVars>>

Serve(request, response) ==
  /\ lastRequest' = request
  /\ lastResponse' = response
  /\ UNCHANGED <<storeVars, codecVars, ingestVars, resizeVars, appVars>>

GetOriginal ==
  \E r \in Requests("original", lastResponse, images) : Serve(r, OriginalGET(r, images))

GetDownload9x16 ==
  \E r \in Requests("9x16", lastResponse, images) : Serve(r, Download9x16GET(r, images))

\* the public route: sessions and validators play no part in it
GetImage ==
  \E r \in Requests("image", lastResponse, images) :
    r.ifNoneMatch = <<>> /\ r.userId # "anonymous" /\ Serve(r, ImageGET(r, images))

PageMetadata ==
  \E r \in Requests("page", lastResponse, images) :
    r.ifNoneMatch = <<>> /\ r.userId = NoUser /\ Serve(r, generateMetadata(r, images))

Next ==
  \/ \E file \in UploadFiles : Upload(file)
  \/ \E id \in ImageIds : SoftDelete(id)
  \/ GetOriginal
  \/ GetDownload9x16
  \/ GetImage
  \/ PageMetadata

Spec == Init /\ [][Next]_vars

(***************************************************************************)
(* A caller of the codec: encodeId, then decodeId and isValidHash          *)
(***************************************************************************)
ChooseId ==
  /\ cpc = "idle"
  /\ \E id \in CodecIds : cid' = id
  /\ cpc' = "chosen"
  /\ UNCHANGED <<chash, cdec, cvalid, storeVars, requestVars, ingestVars, resizeVars, appVars>>

Encode ==
  /\ cpc = "chosen"
  /\ chash' = encodeId(Number(cid))
  /\ cpc' = "encoded"
  /\ UNCHANGED <<cid, cdec, cvalid, storeVars, requestVars, ingestVars, resizeVars, appVars>>

Decode ==
  /\ cpc = "encoded" /\ ~chash.threw
  /\ cdec' = decodeId(chash.hash)
  /\ cvalid' = isValidHash(chash.hash)
  /\ cpc' = "decoded"
  /\ UNCHANGED <<cid, chash, storeVars, requestVars, ingestVars, resizeVars, appVars>>

Forget ==
  /\ cpc = "decoded" \/ (cpc = "encoded" /\ chash.threw)
  /\ cpc' = "idle" /\ cid' = 0 /\ chash' = [threw |-> FALSE, hash |-> <<>>]
  /\ cdec' = Null /\ cvalid' = FALSE
  /\ UNCHANGED <<storeVars, requestVars, ingestVars, resizeVars, appVars>>

NextCodec == ChooseId \/ Encode \/ Decode \/ Forget

SpecCodec == Init /\ [][NextCodec]_vars

(***************************************************************************)
(* processUploadedImage step by step, and its caller                       *)
(***************************************************************************)
Fails(step) == step \in ifaults

\* the promise is settled: with the error rethrown by the catch block
Reject ==
  /\ ipc' = "rejected"
  /\ iresult' = [state |-> "rejected", value |-> <<>>]
  /\ isettled' = isettled + 1

StartIngest(file, faults) ==
  /\ ipc = "idle"
  /\ nextId \in ImageIds
  /\ ibuf' = file /\ ifaults' = faults
  /\ ipc' = "dimensions"
  /\ ilocals' = NoLocals /\ thumbTask' = NotStarted /\ fullTask' = NotStarted
  /\ iresult' = Pending /\ isettled' = 0
  /\ UNCHANGED <<storeVars, requestVars, codecVars, resizeVars, appVars>>

\* const { width, height } = await getImageDimensions(imageBuffer)
ProbeDimensions ==
  /\ ipc = "dimensions"
  /\ LET d == getImageDimensions(ibuf)
     IN  IF d.threw \/ Fails("dimensions")
         THEN Reject /\ UNCHANGED ilocals
         ELSE /\ ilocals' = [ilocals EXCEPT !.width = d.width, !.height = d.height]
              /\ ipc' = "mime"
              /\ UNCHANGED <<iresult, isettled>>
  /\ UNCHANGED <<ibuf, ifaults, thumbTask, fullTask, storeVars, requestVars, codecVars, resizeVars, appVars>>

\* const originalMimeType = await detectMimeType(imageBuffer)
DetectMime ==
  /\ ipc = "mime"
  /\ ilocals' = [ilocals EXCEPT !.originalMimeType =
                   IF Fails("mime") THEN "image/jpeg" ELSE detectMimeType(ibuf)]
  /\ ipc' = "blurhash"
  /\ UNCHANGED <<ibuf, ifaults, thumbTask, fullTask, iresult, isettled,
                 storeVars, requestVars, codecVars, resizeVars, appVars>>

\* a processUploadedImage that goes on to the conversions although
\* generateBlurHash has thrown
BlurHashStartsAnyway ==
  /\ ipc = "blurhash"
  /\ LET b == generateBlurHash(ibuf)
     IN  /\ ilocals' = [ilocals EXCEPT !.blurhash = b.hash]
         /\ ipc' = "converting"
         /\ thumbTask' = [data |-> <<>>, state |-> "pending"]
         /\ fullTask' = [data |-> <<>>, state |-> "pending"]
         /\ UNCHANGED <<iresult, isettled>>
  /\ UNCHANGED <<ibuf, ifaults, storeVars, requestVars, codecVars, resizeVars, appVars>>

\* const blurhash = await generateBlurHash(imageBuffer); then both conversions
\* are started by evaluating the argument of Promise.all
BlurHash ==
  /\ ipc = "blurhash"
  /\ LET b == generateBlurHash(ibuf)
     IN  IF b.threw \/ Fails("blurhash")
         THEN Reject /\ UNCHANGED <<ilocals, thumbTask, fullTask>>
         ELSE /\ ilocals' = [ilocals EXCEPT !.blurhash = b.hash]
              /\ ipc' = "converting"
              /\ thumbTask' = [data |-> <<>>, state |-> "pending"]
              /\ fullTask' = [data |-> <<>>, state |-> "pending"]
              /\ UNCHANGED <<iresult, isettled>>
  /\ UNCHANGED <<ibuf, ifaults, storeVars, requestVars, codecVars, resizeVars, appVars>>

\* how a conversion ends
Settled(step, converted) ==
  IF converted.threw \/ Fails(step)
  THEN [data |-> <<>>, state |-> "rejected"]
  ELSE [data |-> converted.data, state |-> "fulfilled"]

\* the await of Promise.all after one of the two promises has settled
Join(thumb, full) ==
  LET all == IF ipc = "converting" THEN PromiseAll(thumb.state, full.state)
             ELSE "pending"
  IN  CASE all = "rejected" -> Reject
        [] all = "fulfilled" ->
             /\ ipc' = "returned"
             /\ iresult' = [state |-> "fulfilled",
                            value |-> <<ProcessedImage(ibuf, ilocals,
                                          ilocals.originalMimeType, ilocals.blurhash,
                                          thumb.data, full.data)>>]
             /\ isettled' = isettled + 1
        [] OTHER -> UNCHANGED <<ipc, iresult, isettled>>

ThumbnailSettles ==
  /\ thumbTask.state = "pending"
  /\ thumbTask' = Settled("thumbnail", convertToWebP(ibuf, 0, THUMBNAIL_SIZE))
  /\ Join(thumbTask', fullTask)
  /\ UNCHANGED <<ibuf, ifaults, ilocals, fullTask, storeVars, requestVars, codecVars, resizeVars, appVars>>

FullSettles ==
  /\ fullTask.state = "pending"
  /\ fullTask' = Settled("full", convertToWebP(ibuf, 0, 0))
  /\ Join(thumbTask, fullTask')
  /\ UNCHANGED <<ibuf, ifaults, ilocals, thumbTask, storeVars, requestVars, codecVars, resizeVars, appVars>>

\* the caller persists what processUploadedImage returned
Persist ==
  /\ ipc = "returned"
  /\ images' = [images EXCEPT ![nextId] = RowOf(iresult.value[1])]
  /\ nextId' = nextId + 1
  /\ ipc' = "idle"
  /\ UNCHANGED <<ibuf, ifaults, ilocals, thumbTask, fullTask, iresult, isettled,
                 requestVars, codecVars, resizeVars, appVars>>

\* the caller reports the failed upload; nothing is persisted
GiveUp ==
  /\ ipc = "rejected"
  /\ thumbTask.state # "pending" /\ fullTask.state # "pending"
  /\ ipc' = "idle"
  /\ UNCHANGED <<ibuf, ifaults, ilocals, thumbTask, fullTask, iresult, isettled,
                 storeVars, requestVars, codecVars, resizeVars, appVars>>

NextIngest ==
  \/ \E file \in UploadFiles \cup {CorruptFile}, faults \in SUBSET Steps :
       StartIngest(file, faults)
  \/ ProbeDimensions
  \/ DetectMime
  \/ BlurHash
  \/ ThumbnailSettles
  \/ FullSettles
  \/ Persist
  \/ GiveUp

SpecIngest == Init /\ [][NextIngest]_vars

(***************************************************************************)
(* Properties                                                              *)
(***************************************************************************)
\* the last request went to a protected endpoint without a session
NoSession == lastRequest.userId \in {NoUser, "anonymous"}

\* the last request was not stopped by the session check
Authorized == lastRequest.endpoint \notin Protected \/ ~NoSession

ServingEndpoints == {"original", "9x16", "image"}

\* the bytes an endpoint serves for record n
Rendition(endpoint, n) ==
  IF endpoint = "original" THEN getOriginalImageFile(images, n).data
  ELSE getResizedOriginalImage(images, n, 1080, 1920).data

\* C1: a request without a session (no user id, or the user id 'anonymous') to
\* a protected endpoint with a resolvable identifier is answered 401, with no
\* image bytes and no ETag, and without a record lookup or a resize, whatever
\* If-None-Match it carries.
C1_NoSessionGets401 ==
  (lastRequest.endpoint \in Protected /\ NoSession
     /\ ResolveParam(lastRequest.id) # Null)
    => /\ lastResponse.status = 401
       /\ lastResponse.body = <<>>
       /\ lastResponse.etag = <<>>
       /\ lastResponse.lookedUp = Null
       /\ lastResponse.served = <<>>

\* an anonymous request for the 9x16 rendition of a stored, live record, by
\* its opaque string and with a validator, has been answered 401
C1_Witness ==
  /\ lastRequest.endpoint = "9x16"
  /\ lastRequest.userId = "anonymous"
  /\ lastRequest.id = OpaqueIds[1]
  /\ lastRequest.ifNoneMatch # <<>>
  /\ images[1].exists /\ ~images[1].is_deleted
  /\ images[1].original_image_data # <<>>
  /\ lastResponse.status = 401

\* C2: every consumer of an external identifier resolves it by decodeId first
\* and by parseInt (accepted when > 0) only when decodeId returned null: the
\* opaque string of n resolves to n, also when it begins with digits, and a
\* legacy numeral such as "42" resolves to its value.
C2_DecodeThenParse ==
  (lastRequest.endpoint \in Endpoints /\ Authorized)
    => /\ \A n \in DOMAIN OpaqueIds :
            lastRequest.id = OpaqueIds[n] => lastResponse.lookedUp = Some(n)
       /\ \A n \in (1..MaxImages) \cup {42} :
            lastRequest.id = Numeral(n) => lastResponse.lookedUp = Some(n)

\* the page metadata was asked for the opaque string of 21, which parseInt
\* reads as 3, and record 21 was looked up
C2_Witness ==
  /\ lastRequest.endpoint = "page"
  /\ lastRequest.id = OpaqueIds[21]
  /\ parseInt(lastRequest.id) = Some(3)
  /\ lastResponse.lookedUp = Some(21)

\* C3: for every positive id, encodeId does not fail, decodeId of its result
\* is the id, and isValidHash of its result is true.
C3_RoundTrip ==
  /\ (cpc \in {"encoded", "decoded"} /\ cid > 0) => (~chash.threw /\ chash.hash # <<>>)
  /\ cpc = "decoded" => (cdec = Some(cid) /\ cvalid)

\* the largest id, 2^31 - 1, has made the round trip
C3_Witness ==
  cpc = "decoded" /\ cid = 2147483647 /\ cdec = Some(2147483647) /\ cvalid

\* identifiers of the model that decodeId rejects
Undecodable == {param \in IdParams : decodeId(param) = Null}

\* digits only, value > 0
PlainPositive(s) ==
  Len(s) > 0 /\ (\A i \in 1..Len(s) : IsDigit(s[i])) /\ DigitsPrefix(s, 0) > 0

\* C4: an identifier that decodeId rejects and that is not a plain positive
\* base-10 integer is answered 400 'Invalid image ID' without a record lookup,
\* for an authenticated request to /original or /download/9x16 and for any
\* request to GET /api/images/[id]; every id that is looked up is positive.
C4_MalformedIdRejected ==
  /\ (lastRequest.endpoint \in ServingEndpoints /\ Authorized
        /\ lastRequest.id \in Undecodable /\ ~PlainPositive(lastRequest.id))
       => /\ lastResponse.status = 400
          /\ lastResponse.text = "Invalid image ID"
          /\ lastResponse.lookedUp = Null
  /\ lastResponse.lookedUp # Null => lastResponse.lookedUp[1] > 0

\* C5 as stated: a protected endpoint validates the identifier before it
\* authorises, so an invalid identifier is answered 400 also without a session
\* and 401 is produced only for identifiers that resolved.
C5_ResolveThenAuthorize ==
  lastRequest.endpoint \in Protected
    => /\ ResolveParam(lastRequest.id) = Null => lastResponse.status = 400
       /\ lastResponse.status = 401 => ResolveParam(lastRequest.id) # Null

\* C5: a protected endpoint authorises before it looks at the identifier: a
\* request without a session is answered 401 whatever its identifier, 400 is
\* produced only for requests with a session whose identifier does not
\* resolve, and a record is looked up only after both steps have passed.
C5_AuthorizeThenResolve ==
  lastRequest.endpoint \in Protected
    => /\ NoSession => (lastResponse.status = 401 /\ lastResponse.lookedUp = Null)
       /\ (~NoSession /\ ResolveParam(lastRequest.id) = Null)
            => (lastResponse.status = 400 /\ lastResponse.lookedUp = Null)
       /\ lastResponse.status = 401 => NoSession
       /\ lastResponse.status = 400 => ~NoSession
       /\ lastResponse.lookedUp # Null
            => (~NoSession /\ lastResponse.lookedUp = ResolveParam(lastRequest.id))

\* a request without a session and with an identifier that does not resolve
\* was answered 401 by the original route
C5_Witness ==
  /\ lastRequest.endpoint = "original"
  /\ lastRequest.userId = NoUser
  /\ lastRequest.id = <<"a","b","c">>
  /\ ResolveParam(lastRequest.id) = Null
  /\ lastResponse.status = 401

\* C6: for a record whose is_deleted flag is set, /original, /download/9x16
\* and GET /api/images/[id] answer 404, by opaque string and by number, with
\* or without a validator; no 200 or 304 and no bytes, although the row and
\* its bytes are still stored.
C6_DeletedIsNotFound ==
  \A n \in ImageIds :
    (images[n].exists /\ images[n].is_deleted
       /\ lastRequest.endpoint \in ServingEndpoints /\ Authorized
       /\ ResolveParam(lastRequest.id) = Some(n))
      => /\ lastResponse.status = 404
         /\ lastResponse.body = <<>>
         /\ lastResponse.data = <<>>
         /\ lastResponse.etag = <<>>

\* the original of a deleted record whose bytes are still stored was asked
\* for with the ETag of those bytes and answered 404
C6_Witness ==
  /\ images[1].exists /\ images[1].is_deleted
  /\ images[1].original_image_data # <<>>
  /\ lastRequest.endpoint = "original"
  /\ lastRequest.userId = "user-1"
  /\ lastRequest.id = OpaqueIds[1]
  /\ lastRequest.ifNoneMatch = Quoted(Md5Hex(images[1].original_image_data))
  /\ lastResponse.status = 404

\* C7: an authenticated request to /original for a live record with stored
\* original bytes, without a matching If-None-Match, is answered 200 with the
\* stored bytes as body, the stored MIME type as Content-Type and the body's
\* byte length as Content-Length.
C7_OriginalServesStoredFile ==
  \A n \in ImageIds :
    (lastRequest.endpoint = "original" /\ ~NoSession
       /\ ResolveParam(lastRequest.id) = Some(n)
       /\ images[n].exists /\ ~images[n].is_deleted
       /\ images[n].original_image_data # <<>>
       /\ lastRequest.ifNoneMatch # Quoted(Md5Hex(images[n].original_image_data)))
      => /\ lastResponse.status = 200
         /\ lastResponse.body = images[n].original_image_data
         /\ lastResponse.contentType = images[n].original_mime_type
         /\ parseInt(lastResponse.contentLength) = Some(Len(lastResponse.body))

\* a stored PNG was served in answer to a request with a stale validator
C7_Witness ==
  /\ lastRequest.endpoint = "original"
  /\ lastRequest.ifNoneMatch = StaleETag
  /\ lastResponse.status = 200
  /\ lastResponse.body = PngFile
  /\ lastResponse.contentType = "image/png"

\* C8: on /original and /download/9x16 the ETag is the MD5 of the bytes of the
\* rendition of this request; when If-None-Match matches it the answer is 304
\* with an empty body, otherwise 200 with the ETag and those bytes.
C8_ETagOfServedBytes ==
  (lastRequest.endpoint \in Protected /\ lastResponse.lookedUp # Null
     /\ Rendition(lastRequest.endpoint, lastResponse.lookedUp[1]) # <<>>)
    => /\ lastResponse.served
            = Rendition(lastRequest.endpoint, lastResponse.lookedUp[1])
       /\ IF lastRequest.ifNoneMatch = Quoted(Md5Hex(lastResponse.served))
          THEN /\ lastResponse.status = 304
               /\ lastResponse.body = <<>>
          ELSE /\ lastResponse.status = 200
               /\ lastResponse.etag = Quoted(Md5Hex(lastResponse.served))
               /\ lastResponse.body = lastResponse.served

\* the original route answered 304 to the ETag of the stored bytes
C8_Witness ==
  /\ lastRequest.endpoint = "original"
  /\ lastResponse.status = 304
  /\ lastResponse.served # <<>>
  /\ lastRequest.ifNoneMatch = Quoted(Md5Hex(lastResponse.served))

Fallible == {"dimensions", "blurhash", "thumbnail", "full"}

\* C10: under every interleaving of the two conversions, processUploadedImage
\* settles once; it rejects, and returns no ProcessedImage, when dimension
\* probing, BlurHash generation or either conversion fails, and it returns a
\* fully populated ProcessedImage only when all of them succeeded.  Only such
\* a value reaches the table.
C10_AllOrNothing ==
  /\ isettled <= 1
  /\ iresult.state = "fulfilled"
       => /\ ifaults \cap Fallible = {} /\ Decodable(ibuf)
          /\ thumbTask.state = "fulfilled" /\ fullTask.state = "fulfilled"
          /\ iresult.value =
               <<[processUploadedImage(ibuf)
                    EXCEPT !.originalMimeType = ilocals.originalMimeType]>>
  /\ iresult.state # "fulfilled" => iresult.value = <<>>
  /\ (thumbTask.state = "rejected" \/ fullTask.state = "rejected")
       => iresult.state = "rejected"
  /\ (ipc \in {"returned", "rejected"}) => isettled = 1
  /\ ipc = "returned" => iresult.state = "fulfilled"
  /\ ipc = "rejected" => iresult.state = "rejected"
  /\ \A n \in ImageIds :
       (images[n].exists /\ images[n] # LegacyRow)
         => images[n].original_image_data \in UploadFiles

\* the thumbnail conversion failed, the full conversion succeeded, and the
\* call was rejected
C10_Witness ==
  /\ thumbTask.state = "rejected"
  /\ fullTask.state = "fulfilled"
  /\ iresult.state = "rejected"
  /\ isettled = 1

\* C11: no step of processUploadedImage changes the bytes it was given, and
\* when the call succeeds the result's originalImage is those bytes and its
\* originalSize is their length.
C11_OriginalPreserved ==
  [][/\ ipc # "idle" => ibuf' = ibuf
     /\ (iresult.state # "fulfilled" /\ iresult'.state = "fulfilled")
          => /\ iresult'.value[1].originalImage = ibuf
             /\ iresult'.value[1].originalSize = Len(ibuf)]_vars

\* the JPEG of the model was ingested and is returned as it came in
C11_Witness ==
  /\ iresult.state = "fulfilled"
  /\ ibuf = JpegFile
  /\ iresult.value[1].originalImage = JpegFile
  /\ iresult.value[1].originalSize = Len(JpegFile)
  /\ iresult.value[1].imageWebP # JpegFile

(***************************************************************************)
(* The first upload in each format that detectMimeType tells apart, and    *)
(* the downloads of it                                                     *)
(***************************************************************************)
WebpFile == <<82, 640, 480, 31, 0>>
GifFile == <<71, 320, 200, 41, 0>>
SvgFile == <<60, 24, 24, 51, 0>>
TiffFile == <<73, 800, 600, 61, 0>>
BmpFile == <<66, 16, 16, 71, 0>>
FormatFiles == UploadFiles \cup {WebpFile, GifFile, SvgFile, TiffFile, BmpFile}

FirstUpload == \E file \in FormatFiles : nextId = 1 /\ Upload(file)

NextFormats == FirstUpload \/ GetOriginal \/ GetDownload9x16

SpecFormats == Init /\ [][NextFormats]_vars

\* the file extensions in use for a MIME type
ExtensionsOf(mimeType) ==
  CASE mimeType = "image/jpeg" -> {<<"j","p","g">>, <<"j","p","e","g">>}
    [] mimeType = "image/png" -> {<<"p","n","g">>}
    [] mimeType = "image/webp" -> {<<"w","e","b","p">>}
    [] mimeType = "image/gif" -> {<<"g","i","f">>}
    [] mimeType = "image/svg+xml" -> {<<"s","v","g">>}
    [] mimeType = "image/tiff" -> {<<"t","i","f">>, <<"t","i","f","f">>}
    [] mimeType = "image/bmp" -> {<<"b","m","p">>}
    [] OTHER -> {}

\* C12: for every MIME type that ingestion can store, the 200 response of
\* /original has Content-Disposition 'attachment' with the filename
\* image-<id>-original.<extension>, where the extension is one of the MIME
\* type sent as Content-Type in the same response.
C12_ExtensionMatchesContentType ==
  (lastRequest.endpoint = "original" /\ lastResponse.status = 200)
    => /\ lastResponse.disposition.type = "attachment"
       /\ \E extension \in ExtensionsOf(lastResponse.contentType) :
            lastResponse.disposition.filename
              = <<"i","m","a","g","e","-">> \o Numeral(lastResponse.lookedUp[1])
                  \o <<"-","o","r","i","g","i","n","a","l",".">> \o extension

\* C13: for a live record whose original bytes were never stored, /original
\* and /download/9x16 answer an authenticated request with a 404/409-class
\* status, never 200, 304 or 500, and with a body other than that of the
\* record-not-found response.
C13_DataUnavailable ==
  \A n \in ImageIds :
    (lastRequest.endpoint \in Protected /\ ~NoSession
       /\ ResolveParam(lastRequest.id) = Some(n)
       /\ images[n].exists /\ ~images[n].is_deleted
       /\ images[n].original_image_data = <<>>)
      => /\ lastResponse.status \in {404, 409}
         /\ lastResponse.text \notin {"", "Image not found"}
         /\ lastResponse.body = <<>>
         /\ lastResponse.etag = <<>>

\* the 9x16 rendition of a record without original bytes was asked for
C13_Witness ==
  /\ images[1] = LegacyRow
  /\ lastRequest.endpoint = "9x16"
  /\ lastRequest.userId = "user-1"
  /\ lastRequest.id = <<"1">>
  /\ lastResponse.status = 404
  /\ lastResponse.text = "Original image data not available"

(***************************************************************************)
(* Requests during which the lookup fails                                  *)
(***************************************************************************)
\* messages of errors raised below the routes (database driver, sharp)
ErrorMessages == {"connect ECONNREFUSED 127.0.0.1:5432", "Input buffer contains unsupported image format"}

Faults ==
  {NoFault} \cup [kind : {"failure", "throw"}, message : ErrorMessages]

\* requests with a session, by opaque string, by number and by an id
\* without record, during which the lookup may fail
FaultyRequests(endpoint) ==
  [id : {OpaqueIds[1], <<"1">>, <<"4","2">>, <<"a","b","c">>}, userId : {NoUser, "user-1"},
   fault : Faults, ifNoneMatch : {<<>>, StaleETag}, endpoint : {endpoint}]

GetOriginalFaulty ==
  \E r \in FaultyRequests("original") : Serve(r, OriginalGET(r, images))

GetDownload9x16Faulty ==
  \E r \in FaultyRequests("9x16") : Serve(r, Download9x16GET(r, images))

GetImageFaulty ==
  \E r \in FaultyRequests("image") :
    r.ifNoneMatch = <<>> /\ Serve(r, ImageGET(r, images))

PageMetadataFaulty ==
  \E r \in FaultyRequests("page") :
    r.ifNoneMatch = <<>> /\ r.userId = NoUser /\ Serve(r, generateMetadata(r, images))

NextFaults ==
  \/ \E file \in UploadFiles : Upload(file)
  \/ \E id \in ImageIds : SoftDelete(id)
  \/ GetOriginalFaulty
  \/ GetDownload9x16Faulty
  \/ GetImageFaulty
  \/ PageMetadataFaulty

SpecFaults == Init /\ [][NextFaults]_vars

\* the error bodies the serving endpoints write themselves or test for
ErrorTokens ==
  {"Authentication required", "Invalid image ID", "Image not found",
   "Image data not available", "Original image data not available",
   "Internal server error"}

\* C14: every error response of /original, /download/9x16 and GET
\* /api/images/[id] carries a body from a fixed set of error tokens, nothing
\* of the message of the underlying error, and no image bytes; a failure
\* during the lookup is answered 500.
C14_ErrorTokensOnly ==
  (lastRequest.endpoint \in ServingEndpoints /\ lastResponse.status >= 400)
    => /\ lastResponse.text \in ErrorTokens
       /\ lastResponse.details = ""
       /\ lastResponse.body = <<>>
       /\ lastResponse.data = <<>>
       /\ (lastRequest.fault # NoFault /\ lastResponse.lookedUp # Null)
            => lastResponse.status = 500

(***************************************************************************)
(* encodeId on every kind of value a caller can pass                       *)
(***************************************************************************)
MaxWhole == 20

\* the values: the numbers from -MaxWhole to MaxWhole + 0.5 in steps of one
\* half, and NaN, null, undefined
IdValues ==
  [half : BOOLEAN, kind : {"number"}, whole : (0 - MaxWhole)..MaxWhole]
    \cup [half : {FALSE}, kind : {"NaN", "null", "undefined"}, whole : {0}]

ChooseValue ==
  /\ cpc = "idle"
  /\ \E id \in IdValues : cid' = id
  /\ cpc' = "value"
  /\ UNCHANGED <<chash, cdec, cvalid, storeVars, requestVars, ingestVars, resizeVars, appVars>>

EncodeValue ==
  /\ cpc = "value"
  /\ chash' = encodeId(cid)
  /\ cpc' = "valueEncoded"
  /\ UNCHANGED <<cid, cdec, cvalid, storeVars, requestVars, ingestVars, resizeVars, appVars>>

ForgetValue ==
  /\ cpc = "valueEncoded"
  /\ cpc' = "idle" /\ cid' = 0 /\ chash' = [threw |-> FALSE, hash |-> <<>>]
  /\ UNCHANGED <<cdec, cvalid, storeVars, requestVars, ingestVars, resizeVars, appVars>>

NextValues == ChooseValue \/ EncodeValue \/ ForgetValue

SpecValues == Init /\ [][NextValues]_vars

\* C15: encodeId raises for every id that is not a positive integer (0,
\* negative numbers, NaN, null, undefined, positive non-integers such as
\* 1.5) and returns a string only for the positive integers.
C15_RaisesUnlessPositiveInteger ==
  cpc = "valueEncoded" =>
    (chash.threw <=> ~(cid.kind = "number" /\ cid.whole > 0 /\ ~cid.half))

(***************************************************************************)
(* decodeId on every kind of value a caller can pass                       *)
(***************************************************************************)
MaxHashLen == 3

\* a letter of the alphabet, a guard, a separator, and a character that is
\* in none of them
HashChars == {"p", "7", "H", "-"}

\* the strings: every short string over HashChars, a hash of encodeId, the
\* same with its last character changed, with a character outside the
\* alphabet, and the hash of 1 under another salt
HashStrings ==
  UNION {[1..n -> HashChars] : n \in 0..MaxHashLen}
    \cup {OpaqueIds[1], <<"p","g","w","P","m","M">>, <<"p","g","w","P","-","N">>,
          <<"G","V","8","5","g","W">>}

\* the values: strings, and values that are not strings
HashValues ==
  [type : {"string"}, chars : HashStrings]
    \cup [type : {"number", "null", "undefined", "object"}, chars : {<<>>}]

\* decodeId(hash) of any value: typeof hash !== 'string' answers null
decodeIdValue(hash) ==
  IF hash.type # "string" THEN Null ELSE decodeId(hash.chars)

ChooseInput ==
  /\ cpc = "idle"
  /\ \E hash \in HashValues : cid' = hash
  /\ cpc' = "input"
  /\ UNCHANGED <<chash, cdec, cvalid, storeVars, requestVars, ingestVars, resizeVars, appVars>>

DecodeInput ==
  /\ cpc = "input"
  /\ cdec' = decodeIdValue(cid)
  /\ cpc' = "inputDecoded"
  /\ UNCHANGED <<cid, chash, cvalid, storeVars, requestVars, ingestVars, resizeVars, appVars>>

ForgetInput ==
  /\ cpc = "inputDecoded"
  /\ cpc' = "idle" /\ cid' = 0 /\ cdec' = Null
  /\ UNCHANGED <<chash, cvalid, storeVars, requestVars, ingestVars, resizeVars, appVars>>

NextInputs == ChooseInput \/ DecodeInput \/ ForgetInput

SpecInputs == Init /\ [][NextInputs]_vars

\* C16: decodeId never raises: for every input (the empty string, a value
\* that is not a string, a string with characters outside the alphabet, a
\* string that encodeId did not produce under this salt) it returns null or
\* an integer, also when the library's decode throws, and it changes no state.
C16_DecodeNeverRaises ==
  [][(cpc = "input" /\ cpc' = "inputDecoded") =>
       /\ cdec' = Null \/ (Len(cdec') = 1 /\ cdec'[1] \in Nat)
       /\ UNCHANGED <<storeVars, cid, chash, cvalid>>]_vars

\* the library's decode threw on a character outside the alphabet and
\* decodeId has answered null
C16_Witness ==
  /\ cpc = "inputDecoded"
  /\ cid.type = "string" /\ HashidsDecode(cid.chars).threw
  /\ cdec = Null

(***************************************************************************)
(* The image functions called on sources of every size                     *)
(***************************************************************************)
MaxSide == 12

\* widths and heights of the sources: the small ones, those around the
\* thumbnail size, and those of photographs
Sides == (1..MaxSide) \cup {149, 150, 151, 1080, 1920, 4000}

\* a decodable source of each size, as PNG and as JPEG
SourceImages == {<<magic, w, h, 11, 0>> : magic \in {137, 255}, w \in Sides, h \in Sides}

\* maxSize as a caller passes it; 0 is undefined
MaxSizes == {0, 1, 5, 150, 2048}

\* the target sizes a caller of resizeToDimensions asks for
TargetSizes == {<<1080, 1920>>, <<1920, 1080>>, <<1, 1>>, <<150, 150>>}

\* the width and height of an encoded image
DimensionsOf(data) == [width |-> data[2], height |-> data[3]]

Call(call, result) ==
  /\ rpc = "idle"
  /\ rpc' = "returned"
  /\ rcall' = call
  /\ rresult' = result
  /\ UNCHANGED <<storeVars, requestVars, codecVars, ingestVars, appVars>>

\* convertToWebP(imageBuffer, undefined, THUMBNAIL_SIZE)
ConvertThumbnail ==
  \E buffer \in SourceImages :
    Call([imageBuffer |-> buffer, maxSize |-> 0, exactSize |-> THUMBNAIL_SIZE,
          fn |-> "convertToWebP"],
         convertToWebP(buffer, 0, THUMBNAIL_SIZE))

\* convertToWebP(imageBuffer, maxSize)
ConvertFull ==
  \E buffer \in SourceImages, maxSize \in MaxSizes :
    Call([imageBuffer |-> buffer, maxSize |-> maxSize, exactSize |-> 0,
          fn |-> "convertToWebP"],
         convertToWebP(buffer, maxSize, 0))

\* resizeToDimensions(imageBuffer, width, height, format)
ResizeExact ==
  \E buffer \in SourceImages, size \in TargetSizes, format \in {"png", "jpeg"} :
    Call([format |-> format, imageBuffer |-> buffer,
          width |-> size[1], height |-> size[2], fn |-> "resizeToDimensions"],
         resizeToDimensions(buffer, size[1], size[2], format))

\* processUploadedImage(imageBuffer)
Process ==
  \E buffer \in SourceImages :
    Call([imageBuffer |-> buffer, fn |-> "processUploadedImage"],
         processUploadedImage(buffer))

\* GET /api/images/1/download/9x16 with a session, the image 1 being buffer
DownloadPortrait ==
  \E buffer \in SourceImages :
    Call([imageBuffer |-> buffer, fn |-> "download9x16"],
         Download9x16GET([NoRequest EXCEPT !.endpoint = "9x16", !.id = <<"1">>,
                                           !.userId = "user-1"],
                         [i \in ImageIds |->
                            IF i = 1 THEN RowOf(processUploadedImage(buffer))
                            ELSE NoRow]))

Return ==
  /\ rpc = "returned"
  /\ rpc' = "idle" /\ rcall' = NoCall /\ rresult' = NoCall
  /\ UNCHANGED <<storeVars, requestVars, codecVars, ingestVars, appVars>>

NextResize ==
  ConvertThumbnail \/ ConvertFull \/ ResizeExact \/ Process \/ DownloadPortrait \/ Return

SpecResize == Init /\ [][NextResize]_vars

Called(fn) == rpc = "returned" /\ rcall.fn = fn
SourceWidth == rcall.imageBuffer[2]
SourceHeight == rcall.imageBuffer[3]

\* C17: for every decodable source of any width and height, also smaller than
\* the thumbnail, convertToWebP(bytes, undefined, THUMBNAIL_SIZE) yields an
\* image of exactly 150x150 pixels, and it is the conversion
\* processUploadedImage uses for thumbnailWebP.
C17_ThumbnailIsSquare ==
  /\ (Called("convertToWebP") /\ rcall.exactSize = THUMBNAIL_SIZE) =>
       /\ ~rresult.threw
       /\ DimensionsOf(rresult.data) = [width |-> 150, height |-> 150]
  /\ Called("processUploadedImage") =>
       /\ rresult.thumbnailWebP
            = convertToWebP(rcall.imageBuffer, 0, THUMBNAIL_SIZE).data
       /\ DimensionsOf(rresult.thumbnailWebP) = [width |-> 150, height |-> 150]

\* a source of 1x4000 pixels has been made a thumbnail of 150x150
C17_Witness ==
  /\ Called("convertToWebP") /\ rcall.exactSize = THUMBNAIL_SIZE
  /\ SourceWidth = 1 /\ SourceHeight = 4000
  /\ DimensionsOf(rresult.data) = [width |-> 150, height |-> 150]

Abs(n) == IF n < 0 THEN 0 - n ELSE n

\* C18: convertToWebP(bytes, maxSize) never upscales: a source within the
\* bound keeps its dimensions; a larger one fits within maxSize x maxSize with
\* its aspect ratio kept within one pixel of rounding; with no bound, as
\* processUploadedImage calls it, the dimensions are unchanged.
C18_FullNeverUpscales ==
  /\ (Called("convertToWebP") /\ rcall.exactSize = 0) =>
       LET out == DimensionsOf(rresult.data)
           w == SourceWidth
           h == SourceHeight
           m == rcall.maxSize
       IN  /\ ~rresult.threw
           /\ out.width <= w /\ out.height <= h
           /\ (m = 0 \/ (w <= m /\ h <= m)) => out = [width |-> w, height |-> h]
           /\ (m # 0 /\ (w > m \/ h > m)) =>
                /\ out.width <= m /\ out.height <= m
                /\ out.width = m \/ out.height = m
                /\ \/ Abs(out.height * w - h * out.width) <= w
                   \/ Abs(out.width * h - w * out.height) <= h
  /\ Called("processUploadedImage") =>
       DimensionsOf(rresult.imageWebP)
         = [width |-> SourceWidth, height |-> SourceHeight]

\* a source of 4000x1080 pixels has been scaled down to fit 2048x2048
C18_Witness ==
  /\ Called("convertToWebP") /\ rcall.exactSize = 0 /\ rcall.maxSize = 2048
  /\ SourceWidth = 4000 /\ SourceHeight = 1080
  /\ DimensionsOf(rresult.data) = [width |-> 2048, height |-> 553]

\* C19: resizeToDimensions(bytes, w, h, format) yields an image of exactly
\* w x h pixels for every source size, also for a source smaller than the
\* target in one or both dimensions; the 9x16 download always asks for
\* 1080x1920.
C19_ExactDimensions ==
  /\ Called("resizeToDimensions") =>
       /\ ~rresult.threw
       /\ DimensionsOf(rresult.data)
            = [width |-> rcall.width, height |-> rcall.height]
  /\ Called("download9x16") =>
       /\ rresult.status = 200
       /\ DimensionsOf(rresult.body) = [width |-> 1080, height |-> 1920]

\* a source of 1x1 pixel has been enlarged to 1080x1920
C19_Witness ==
  /\ Called("resizeToDimensions")
  /\ SourceWidth = 1 /\ SourceHeight = 1
  /\ DimensionsOf(rresult.data) = [width |-> 1080, height |-> 1920]

(***************************************************************************)
(* app/api/auth/google/route.ts, app/api/auth/google/callback/route.ts     *)
(***************************************************************************)
\* Buffer.from(JSON.stringify(stateData)).toString('base64url'); a key the
\* object does not have, or whose value is null, is ""
EncodeState(stateData) ==
  <<"base64url", stateData.returnUrl, stateData.pendingDownload, stateData.random,
    stateData.pendingFavorite>>

\* JSON.parse(Buffer.from(state, 'base64url').toString()) and the defaults
\* of the callback: '/' and null where the state cannot be parsed
DecodeState(state) ==
  IF Len(state) = 5 /\ state[1] = "base64url"
  THEN [returnUrl |-> IF state[2] = "" THEN "/" ELSE state[2],
        pendingDownload |-> state[3], pendingFavorite |-> state[5]]
  ELSE [returnUrl |-> "/", pendingDownload |-> "", pendingFavorite |-> ""]

\* NextResponse.redirect(url): the cookies it sets and deletes
Redirect(url, searchParams, set, deleted) ==
  [status |-> 307, text |-> "", location |-> url,
   query |-> searchParams, setCookies |-> set, deletedCookies |-> deleted]

\* NextResponse.redirect(new URL('/?error=...', request.url))
ErrorRedirect(error) == Redirect("/", {<<"error", error>>}, {}, {})

\* signInWithGoogle(returnUrl, pendingDownload, pendingFavorite): the query
\* of the URL the browser is sent to; "" is an argument left undefined
signInWithGoogle(returnUrl, pendingDownload, pendingFavorite) ==
  [returnUrl |-> returnUrl, download |-> pendingDownload, favorite |-> pendingFavorite]

\* GET /api/auth/google; the stateData it builds has the keys timestamp,
\* random, returnUrl and pendingDownload
GoogleGET(request) ==
  IF ~request.configured
  THEN [status |-> 500,
        text |-> "Google OAuth not configured. Please check environment variables.",
        location |-> "", query |-> {},
        setCookies |-> {},
        deletedCookies |-> {}]
  ELSE IF request.rateLimited
  THEN [status |-> 429, text |-> "Too many requests", location |-> "", query |-> {},
        setCookies |-> {}, deletedCookies |-> {}]
  ELSE LET state == EncodeState([returnUrl |-> IF request.returnUrl = "" THEN "/"
                                                ELSE request.returnUrl,
                                 pendingDownload |-> request.download,
                                 random |-> request.random,
                                 pendingFavorite |-> ""])
       IN  Redirect("https://accounts.google.com/o/oauth2/v2/auth",
                    {<<"state", state>>}, {<<"oauth_state", state>>}, {})

\* a state check that only asks for both values to be present
StateMissingOnly(state, storedState) == state = <<>> \/ storedState = <<>>

\* !state || !storedState || state !== storedState
InvalidState(state, storedState) ==
  state = <<>> \/ storedState = <<>> \/ state # storedState

\* generateSessionToken(String(user.id))
SessionToken(userId) == <<"session", Numeral(userId)>>

\* the user the callback signs in, or the error it redirects with
CallbackUser(request) ==
  IF request.existing
  THEN IF request.auth THEN [id |-> 7, error |-> ""]
       ELSE [id |-> 0, error |-> "auth_failed"]
  ELSE IF request.create = "created" THEN [id |-> 8, error |-> ""]
  ELSE IF request.create = "already exists"
  THEN IF request.auth THEN [id |-> 7, error |-> ""]
       ELSE [id |-> 0, error |-> "auth_failed"]
  ELSE [id |-> 0, error |-> "user_creation_failed"]

\* new URL(returnUrl) throws on an absolute URL without a host
UrlThrows(returnUrl) == returnUrl \in {"http://", "https://"}

\* the callback once the user is known: the session cookie and the redirect
CallbackSignIn(user, stateData) ==
  IF user.error # "" THEN ErrorRedirect(user.error)
  ELSE IF UrlThrows(stateData.returnUrl) THEN ErrorRedirect("callback_failed")
  ELSE Redirect(stateData.returnUrl,
                IF stateData.pendingDownload # ""
                THEN {<<"download", stateData.pendingDownload>>, <<"auth", "success">>}
                ELSE IF stateData.pendingFavorite # "" THEN {<<"auth", "success">>}
                ELSE {},
                {<<"session_token", SessionToken(user.id)>>},
                {"oauth_state"})

\* the callback once the request has passed its checks: the two fetches
CallbackExchange(request) ==
  IF request.token = "throws" THEN ErrorRedirect("callback_failed")
  ELSE IF request.token = "not ok" THEN ErrorRedirect("token_exchange_failed")
  ELSE IF request.token \in {"no access_token", "no id_token"}
  THEN ErrorRedirect("no_tokens")
  ELSE IF request.userInfo = "throws" THEN ErrorRedirect("callback_failed")
  ELSE IF request.userInfo = "not ok" THEN ErrorRedirect("user_info_failed")
  ELSE IF request.userInfo = "no email" THEN ErrorRedirect("no_email")
  ELSE CallbackSignIn(CallbackUser(request), DecodeState(request.state))

\* GET /api/auth/google/callback
CallbackGET(request) ==
  IF request.rateLimited THEN ErrorRedirect("rate_limit")
  ELSE IF request.error # "" THEN ErrorRedirect("oauth_failed")
  ELSE IF InvalidState(request.state, request.oauthState)
  THEN ErrorRedirect("invalid_state")
  ELSE IF request.code = "" THEN ErrorRedirect("no_code")
  ELSE IF ~request.configured THEN ErrorRedirect("oauth_not_configured")
  ELSE CallbackExchange(request)

\* where the login started and what it was for
ReturnUrls == {"", "/gallery", "https://example.org/", "http://"}

\* the sign-ins the pages start: plain, for a download, for a favorite
SignIns ==
  {signInWithGoogle(u, d, f) :
     u \in ReturnUrls, d \in {"", "1:9x16"}, f \in {"", "7"}}

\* the requests they lead to, with what the server adds: its configuration,
\* its rate limiter's verdict, the random part of the state
InitiationRequests ==
  {[endpoint |-> "auth/google", returnUrl |-> q.returnUrl, random |-> e.random,
    download |-> q.download, favorite |-> q.favorite,
    configured |-> e.configured, rateLimited |-> e.rateLimited] :
     q \in SignIns,
     e \in [random : {"k3x9", "p0q2"}, configured : BOOLEAN, rateLimited : BOOLEAN]}

\* a state no initiation issues: it names a pending favorite
FavoriteState ==
  EncodeState([returnUrl |-> "/gallery", pendingDownload |-> "", random |-> "k3x9",
               pendingFavorite |-> "7"])

\* the states the initiation issues, and two that are not of its making
OAuthStates ==
  {EncodeState([returnUrl |-> u, pendingDownload |-> "", random |-> "k3x9",
                pendingFavorite |-> ""]) :
     u \in ReturnUrls \ {""}}
    \cup {EncodeState([returnUrl |-> "/", pendingDownload |-> "1:9x16",
                       random |-> "p0q2", pendingFavorite |-> ""]),
          <<"not-base64url">>, FavoriteState}

\* what the calls the callback awaits answer; a call that is not reached
\* (after a failed one) is left at its first value
Answers ==
  [existing : {TRUE},
   auth : {TRUE}, create : {"created"},
   token : {"throws", "not ok", "no access_token", "no id_token"}, userInfo : {"ok"}]
    \cup [existing : {TRUE}, auth : {TRUE},
          create : {"created"}, token : {"ok"}, userInfo : {"throws", "not ok", "no email"}]
    \cup [existing : BOOLEAN, auth : BOOLEAN,
          create : {"created", "already exists", "failed"}, token : {"ok"},
          userInfo : {"ok"}]

\* a callback request: its query, its cookie, the server's configuration
CallbackRequests(issued) ==
  {[error |-> q.error, endpoint |-> "auth/google/callback", state |-> q.state,
    configured |-> q.configured, rateLimited |-> q.rateLimited,
    existing |-> a.existing, auth |-> a.auth,
    create |-> a.create, token |-> a.token, userInfo |-> a.userInfo,
    oauthState |-> q.oauthState, code |-> q.code] :
     q \in [error : {"", "access_denied"},
            state : {<<>>} \cup OAuthStates,
            configured : BOOLEAN,
            rateLimited : BOOLEAN,
            oauthState : {<<>>, <<"not-base64url">>, FavoriteState} \cup issued,
            code : {"", "4/0AbCd"}],
     a \in Answers}

\* the oauth_state cookies the browser can hold: those the last response set
IssuedStates(response) ==
  IF "setCookies" \in DOMAIN response
  THEN {c[2] : c \in {s \in response.setCookies : s[1] = "oauth_state"}}
  ELSE {}

Initiate ==
  \E r \in InitiationRequests : Serve(r, GoogleGET(r))

\* the browser comes back from Google after an initiation, or a client
\* calls the callback uninvited
Callback ==
  /\ lastRequest.endpoint \in {"", "auth/google"}
  /\ \E r \in CallbackRequests(IssuedStates(lastResponse)) : Serve(r, CallbackGET(r))

NextOAuth == Initiate \/ Callback

SpecOAuth == Init /\ [][NextOAuth]_vars

\* every awaited call of the request succeeded
SignInSucceeded(request) ==
  /\ request.token = "ok"
  /\ request.userInfo = "ok"
  /\ \/ request.existing /\ request.auth
     \/ ~request.existing /\ request.create = "created"
     \/ ~request.existing /\ request.create = "already exists" /\ request.auth

SetsSession(response) == \E c \in response.setCookies : c[1] = "session_token"

StartedForFavorite(r) ==
  /\ r.endpoint = "auth/google"
  /\ r.favorite # ""
  /\ r.download = ""

\* C23: when sign-in is started with a pending favorite and no pending
\* download, the state that travels through the initiation route and back
\* carries the pending favorite, so the final redirect of a callback that
\* signs the user in has auth=success set.
C23_FavoriteSignInReturnsAuthSuccess ==
  [][(/\ StartedForFavorite(lastRequest)
      /\ lastRequest'.endpoint = "auth/google/callback"
      /\ lastRequest'.state \in IssuedStates(lastResponse)
      /\ SetsSession(lastResponse'))
       => <<"auth", "success">> \in lastResponse'.query]_vars

(***************************************************************************)
(* Old numeric links: numerals that decodeId accepts                       *)
(***************************************************************************)
\* decodeId and the numeric reading of the identifiers of old links
DecodedLegacy == {<<param, decodeId(param)>> : param \in LegacyParams}
DecodedParam(param) == (CHOOSE t \in DecodedLegacy : t[1] = param)[2]
NumeralValue(param) == PositiveOrNull(parseInt(param))

\* the requests a client that follows an old link may send
LegacyRequests(endpoint, prev, imgs) ==
  [id : LegacyParams, userId : {NoUser, "user-1"}, fault : {NoFault},
   ifNoneMatch : {<<>>, prev.etag}, endpoint : {endpoint}]

FollowLink ==
  \E endpoint \in Endpoints :
    \E r \in LegacyRequests(endpoint, lastResponse, images) :
      /\ endpoint \notin Protected => (r.ifNoneMatch = <<>> /\ r.userId = NoUser)
      /\ Serve(r, CASE endpoint = "original" -> OriginalGET(r, images)
                    [] endpoint = "9x16" -> Download9x16GET(r, images)
                    [] endpoint = "image" -> ImageGET(r, images)
                    [] OTHER -> generateMetadata(r, images))

NextLegacy ==
  \/ \E file \in UploadFiles : Upload(file)
  \/ \E id \in ImageIds : SoftDelete(id)
  \/ FollowLink

SpecLegacy == Init /\ [][NextLegacy]_vars

\* C24: when an identifier is both accepted by decodeId (returning m) and
\* the numeral of a positive integer n, every dispatcher resolves it to m
\* and never to n; the numeric reading n is looked up only when decodeId
\* returned null.
C24_DecodedWinsOverNumeral ==
  (lastRequest.endpoint \in Endpoints /\ lastRequest.id \in LegacyParams)
    => LET m == DecodedParam(lastRequest.id)
           n == NumeralValue(lastRequest.id)
       IN  /\ (m # Null /\ n # Null /\ lastResponse.lookedUp # Null)
                => (lastResponse.lookedUp = m /\ (m # n => lastResponse.lookedUp # n))
           /\ (m # Null /\ n # Null /\ m[1] > 0
                 /\ (lastRequest.endpoint \in Protected => ~Unauthenticated(lastRequest.userId)))
                => lastResponse.lookedUp = m
           /\ (n # Null /\ lastResponse.lookedUp = n) => (m = Null \/ m = n)

\* the old link to record 200001 was followed with a session on the original
\* route: decodeId read the numeral as 61364174 and that record was looked up
C24_Witness ==
  /\ lastRequest.endpoint = "original"
  /\ lastRequest.id = LegacyNumeral
  /\ lastRequest.userId = "user-1"
  /\ DecodedParam(LegacyNumeral) = Some(61364174)
  /\ NumeralValue(LegacyNumeral) = Some(200001)
  /\ lastResponse.lookedUp = Some(61364174)
  /\ lastResponse.status = 404

(***************************************************************************)
(* Favorites: backend/lib/favorites and the routes under app/api/favorites *)
(***************************************************************************)
\* the user ids of two sessions
Sessions == {"user-1", "user-2"}

\* the serial ids the table favorites hands out
MaxFavoriteId == 2

Reverse(s) == [i \in 1..Len(s) |-> s[Len(s) + 1 - i]]

\* SELECT ... FROM favorites f INNER JOIN generated_images gi
\*   ON f.image_id = gi.id
\* WHERE f.user_id = $1 AND (gi.is_deleted = false OR gi.is_deleted IS NULL)
\* ORDER BY f.created_at DESC
FavoritesJoinLive(favs, imgs, userId) ==
  Reverse(SelectSeq(favs, LAMBDA f : /\ f.user_id = userId
                                     /\ Len(SelectLive(imgs, f.image_id)) > 0))

\* SELECT id FROM favorites WHERE user_id = $1 AND image_id = $2
FavoritesOf(favs, userId, imageId) ==
  SelectSeq(favs, LAMBDA f : f.user_id = userId /\ f.image_id = imageId)

\* getUserFavorites(userId)
getUserFavorites(favs, imgs, userId) ==
  LET rows == FavoritesJoinLive(favs, imgs, userId)
  IN  [data |-> [i \in 1..Len(rows) |->
                   [id |-> rows[i].image_id,
                    hashId |-> OpaqueIds[rows[i].image_id],
                    favorite_id |-> rows[i].id]],
       success |-> TRUE]

\* isFavorited(userId, imageId)
isFavorited(favs, userId, imageId) ==
  [success |-> TRUE, isFavorited |-> Len(FavoritesOf(favs, userId, imageId)) > 0]

\* an INSERT without the ON CONFLICT clause, on a table without the unique
\* constraint it relies on
InsertFavoriteAlways(favs, serialId, userId, imageId) ==
  LET row == [id |-> serialId, user_id |-> userId, image_id |-> imageId]
  IN  [rows |-> <<row>>, table |-> Append(favs, row)]

\* INSERT INTO favorites (user_id, image_id) VALUES ($1, $2)
\* ON CONFLICT (user_id, image_id) DO NOTHING RETURNING *
\* the table afterwards and the rows returned; serialId is the value the
\* sequence of the id column hands out
InsertFavorite(favs, serialId, userId, imageId) ==
  IF Len(FavoritesOf(favs, userId, imageId)) > 0
  THEN [rows |-> <<>>, table |-> favs]
  ELSE LET row == [id |-> serialId, user_id |-> userId, image_id |-> imageId]
       IN  [rows |-> <<row>>, table |-> Append(favs, row)]

\* DELETE FROM favorites WHERE user_id = $1 AND image_id = $2 RETURNING *
DeleteFavorite(favs, userId, imageId) ==
  [rows |-> FavoritesOf(favs, userId, imageId),
   table |-> SelectSeq(favs, LAMBDA f : ~(f.user_id = userId /\ f.image_id = imageId))]

\* addFavorite(userId, imageId), given what the INSERT returned
addFavorite(inserted) ==
  IF Len(inserted.rows) = 0
  THEN [data |-> <<>>, error |-> "Image already in favorites", success |-> FALSE]
  ELSE [data |-> inserted.rows, error |-> "", success |-> TRUE]

\* removeFavorite(userId, imageId), given what the DELETE returned
removeFavorite(deleted) ==
  IF Len(deleted.rows) = 0
  THEN [data |-> <<>>, error |-> "Favorite not found", success |-> FALSE]
  ELSE [data |-> <<>>, error |-> "", success |-> TRUE]

\* NextResponse.json(body, { status })
JsonResponse(status, success, error, data, favorited) ==
  [data |-> data, error |-> error, success |-> success, status |-> status,
   isFavorited |-> favorited]

\* GET /api/favorites
FavoritesGET(request, favs, imgs) ==
  IF Unauthenticated(request.userId)
  THEN JsonResponse(401, FALSE, "Authentication required", <<>>, FALSE)
  ELSE JsonResponse(200, TRUE, "",
                    getUserFavorites(favs, imgs, request.userId).data, FALSE)

\* POST /api/favorites with body { imageId }; imageId 0 is a missing one
FavoritesPOST(request, result) ==
  IF Unauthenticated(request.userId)
  THEN JsonResponse(401, FALSE, "Authentication required", <<>>, FALSE)
  ELSE IF request.imageId = 0
  THEN JsonResponse(400, FALSE, "imageId is required", <<>>, FALSE)
  ELSE IF ~result.success
  THEN JsonResponse(IF result.error = "Image already in favorites" THEN 409 ELSE 500,
                    FALSE, result.error, <<>>, FALSE)
  ELSE JsonResponse(200, TRUE, "", result.data, FALSE)

\* DELETE /api/favorites?imageId=X
FavoritesDELETE(request, result) ==
  IF Unauthenticated(request.userId)
  THEN JsonResponse(401, FALSE, "Authentication required", <<>>, FALSE)
  ELSE IF request.imageId = 0
  THEN JsonResponse(400, FALSE, "imageId is required", <<>>, FALSE)
  ELSE IF ~result.success
  THEN JsonResponse(IF result.error = "Favorite not found" THEN 404 ELSE 500,
                    FALSE, result.error, <<>>, FALSE)
  ELSE JsonResponse(200, TRUE, "", <<>>, FALSE)

\* GET /api/favorites/check?imageId=X
FavoritesCheckGET(request, favs) ==
  IF Unauthenticated(request.userId)
  THEN JsonResponse(200, TRUE, "", <<>>, FALSE)
  ELSE IF request.imageId = 0
  THEN JsonResponse(400, FALSE, "imageId is required", <<>>, FALSE)
  ELSE JsonResponse(200, TRUE, "", <<>>,
                    isFavorited(favs, request.userId, request.imageId).isFavorited)

\* the requests a client may send to the favorites routes
FavoriteRequests(fn) ==
  [userId : Sessions \cup {NoUser, "anonymous"}, fn : {fn}, imageId : {0} \cup ImageIds]

\* whether the handler gets as far as the library call
ReachesLibrary(request) == ~Unauthenticated(request.userId) /\ request.imageId # 0

ListFavorites ==
  \E r \in FavoriteRequests("GET /api/favorites") :
    /\ r.imageId = 0
    /\ fcall' = r
    /\ fresult' = FavoritesGET(r, favorites, images)
    /\ UNCHANGED <<storeVars, favorites, nextFavoriteId, otherThanFavorites>>

CheckFavorite ==
  \E r \in FavoriteRequests("GET /api/favorites/check") :
    /\ fcall' = r
    /\ fresult' = FavoritesCheckGET(r, favorites)
    /\ UNCHANGED <<storeVars, favorites, nextFavoriteId, otherThanFavorites>>

PostFavorite ==
  \E r \in FavoriteRequests("POST /api/favorites") :
    /\ nextFavoriteId <= MaxFavoriteId
    /\ r.imageId # 0 => images[r.imageId].exists
    /\ LET inserted == InsertFavorite(favorites, nextFavoriteId, r.userId, r.imageId)
       IN  /\ fcall' = r
           /\ fresult' = FavoritesPOST(r, addFavorite(inserted))
           /\ favorites' = IF ReachesLibrary(r) THEN inserted.table ELSE favorites
           /\ nextFavoriteId' = IF ReachesLibrary(r) THEN nextFavoriteId + 1
                                ELSE nextFavoriteId
    /\ UNCHANGED <<storeVars, otherThanFavorites>>

DeleteFavoriteRequest ==
  \E r \in FavoriteRequests("DELETE /api/favorites") :
    LET deleted == DeleteFavorite(favorites, r.userId, r.imageId)
    IN  /\ fcall' = r
        /\ fresult' = FavoritesDELETE(r, removeFavorite(deleted))
        /\ favorites' = IF ReachesLibrary(r) THEN deleted.table ELSE favorites
        /\ UNCHANGED <<storeVars, nextFavoriteId, otherThanFavorites>>

NextFavorites ==
  \/ \E file \in {PngFile} : Upload(file)
  \/ \E id \in ImageIds : SoftDelete(id)
  \/ ListFavorites
  \/ CheckFavorite
  \/ PostFavorite
  \/ DeleteFavoriteRequest

SpecFavorites == Init /\ [][NextFavorites]_vars

\* the rows of the table favorites for a user and an image
Favorited(userId, imageId) == Len(FavoritesOf(favorites, userId, imageId)) > 0

\* C21: once an image's is_deleted flag is set, no favorites read path
\* reports it for any user: GET /api/favorites (getUserFavorites) does not
\* list it and GET /api/favorites/check (isFavorited) does not report it as
\* favorited.
C21_DeletedExcludedFromFavorites ==
  /\ fcall.fn = "GET /api/favorites" =>
       \A i \in 1..Len(fresult.data) : ~images[fresult.data[i].id].is_deleted
  /\ (fcall.fn = "GET /api/favorites/check" /\ fcall.imageId # 0
        /\ images[fcall.imageId].is_deleted) => ~fresult.isFavorited

\* C21, the part that holds: the listing leaves soft-deleted images out and
\* the favorites row and the image row stay in storage
C21_ListingExcludesDeleted ==
  /\ fcall.fn = "GET /api/favorites" =>
       \A i \in 1..Len(fresult.data) : ~images[fresult.data[i].id].is_deleted
  /\ \A i \in 1..Len(favorites) : images[favorites[i].image_id].exists

\* a user checks a favorite of theirs whose image was soft-deleted
C21_Witness ==
  /\ fcall.fn = "GET /api/favorites/check"
  /\ fcall.imageId # 0
  /\ images[fcall.imageId].is_deleted
  /\ Favorited(fcall.userId, fcall.imageId)

\* C25: after any sequence of addFavorite and removeFavorite calls the table
\* favorites holds at most one row per (user, image) pair; adding a pair
\* that is present answers 409 'Image already in favorites', removing a pair
\* that is absent answers 404 'Favorite not found', and both leave the table
\* as it was.
C25_OneRowPerPair ==
  [][/\ \A i, j \in 1..Len(favorites') :
          (/\ favorites'[i].user_id = favorites'[j].user_id
           /\ favorites'[i].image_id = favorites'[j].image_id) => i = j
     /\ (/\ fcall'.fn = "POST /api/favorites"
         /\ ReachesLibrary(fcall')
         /\ Favorited(fcall'.userId, fcall'.imageId))
          => /\ fresult'.status = 409
             /\ ~fresult'.success
             /\ fresult'.error = "Image already in favorites"
             /\ favorites' = favorites
     /\ (/\ fcall'.fn = "DELETE /api/favorites"
         /\ ReachesLibrary(fcall')
         /\ ~Favorited(fcall'.userId, fcall'.imageId))
          => /\ fresult'.status = 404
             /\ ~fresult'.success
             /\ fresult'.error = "Favorite not found"
             /\ favorites' = favorites]_vars

\* a user who holds a favorite posted it again and was answered 409
C25_Witness ==
  /\ fcall.fn = "POST /api/favorites"
  /\ fresult.status = 409
  /\ Favorited(fcall.userId, fcall.imageId)
  /\ nextFavoriteId > Len(favorites) + 1

(***************************************************************************)
(* Users: backend/lib/users and the user lookup of the OAuth callback      *)
(*                                                                         *)
(* A row of the table users is [id, email, firebase_uid, auth_provider];   *)
(* a NULL firebase_uid is "".  The columns name, password_hash and the     *)
(* timestamps play no part in what follows and are left out.               *)
(***************************************************************************)
MaxUserId == 3

Emails == {"ana@example.org", "bo@example.org"}
GoogleIds == {"g-1", "g-2"}

\* SELECT ... FROM users WHERE firebase_uid = $1
UsersByUid(table, firebaseUid) ==
  SelectSeq(table, LAMBDA u : u.firebase_uid # "" /\ u.firebase_uid = firebaseUid)

\* SELECT ... FROM users WHERE email = $1
UsersByEmail(table, email) == SelectSeq(table, LAMBDA u : u.email = email)

UserFailure(error) == [data |-> <<>>, error |-> error, success |-> FALSE]
UserSuccess(user) == [data |-> <<user>>, error |-> "", success |-> TRUE]

\* createUser(email, password, name): INSERT ... ON CONFLICT (email) DO NOTHING
createUser(table, serialId, email) ==
  IF Len(UsersByEmail(table, email)) > 0
  THEN [result |-> UserFailure("User with this email already exists"), table |-> table]
  ELSE LET user == [id |-> serialId, firebase_uid |-> "", email |-> email,
                    auth_provider |-> "email"]
       IN  [result |-> UserSuccess(user), table |-> Append(table, user)]

\* getUserByFirebaseUid(firebaseUid)
getUserByFirebaseUid(table, firebaseUid) ==
  LET rows == UsersByUid(table, firebaseUid)
  IN  IF Len(rows) = 0 THEN UserFailure("User not found") ELSE UserSuccess(rows[1])

\* UPDATE users SET firebase_uid = $1, auth_provider = 'google' WHERE <rows>
LinkGoogle(table, firebaseUid, rows) ==
  [i \in 1..Len(table) |->
     IF rows[i] THEN [table[i] EXCEPT !.firebase_uid = firebaseUid,
                                      !.auth_provider = "google"]
     ELSE table[i]]

\* createGoogleUser(email, firebaseUid, name)
createGoogleUser(table, serialId, email, firebaseUid) ==
  LET existingUser == UsersByEmail(table, email)
  IN  IF Len(existingUser) > 0
      THEN IF existingUser[1].firebase_uid = ""
           THEN [result |-> UserSuccess([existingUser[1] EXCEPT
                                           !.firebase_uid = firebaseUid,
                                           !.auth_provider = "google"]),
                 table |-> LinkGoogle(table, firebaseUid,
                                      [i \in 1..Len(table) |->
                                         table[i].id = existingUser[1].id])]
           ELSE [result |-> UserFailure("User with this email already exists"),
                 table |-> table]
      ELSE LET user == [id |-> serialId, firebase_uid |-> firebaseUid,
                        email |-> email, auth_provider |-> "google"]
           IN  [result |-> UserSuccess(user), table |-> Append(table, user)]

\* authenticateGoogleUser(firebaseUid, email)
authenticateGoogleUser(table, firebaseUid, email) ==
  LET byUid == UsersByUid(table, firebaseUid)
  IN  IF Len(byUid) > 0
      THEN [result |-> UserSuccess(byUid[1]), table |-> table]
      ELSE IF Len(UsersByEmail(table, email)) > 0
      THEN LET updated == LinkGoogle(table, firebaseUid,
                                     [i \in 1..Len(table) |-> table[i].email = email])
           IN  [result |-> UserSuccess(UsersByEmail(updated, email)[1]), table |-> updated]
      ELSE [result |-> UserFailure("User not found"), table |-> table]

\* whether the message says the email is taken: error?.includes('already exists')
AlreadyExists(error) == error = "User with this email already exists"

\* what the callback makes of a sign-in: the table afterwards, the id the
\* session token is generated for (0: none), the error it redirects with
SignedIn(table, result) == [error |-> "", userId |-> result.data[1].id, table |-> table]
SignInFailed(table, error) == [error |-> error, userId |-> 0, table |-> table]

\* the user lookup and creation of GET /api/auth/google/callback
CallbackUsers(table, serialId, googleId, email) ==
  IF getUserByFirebaseUid(table, googleId).success
  THEN LET authResult == authenticateGoogleUser(table, googleId, email)
       IN  IF ~authResult.result.success
           THEN SignInFailed(authResult.table, "auth_failed")
           ELSE SignedIn(authResult.table, authResult.result)
  ELSE LET createResult == createGoogleUser(table, serialId, email, googleId)
       IN  IF ~createResult.result.success
           THEN IF AlreadyExists(createResult.result.error)
                THEN LET authResult == authenticateGoogleUser(createResult.table,
                                                              googleId, email)
                     IN  IF authResult.result.success
                         THEN SignedIn(authResult.table, authResult.result)
                         ELSE SignInFailed(authResult.table, "auth_failed")
                ELSE SignInFailed(createResult.table, "user_creation_failed")
           ELSE SignedIn(createResult.table, createResult.result)

\* a visitor registers with email and password
SignUp ==
  \E email \in Emails :
    LET created == createUser(users, nextUserId, email)
    IN  /\ nextUserId <= MaxUserId
        /\ users' = created.table
        /\ nextUserId' = nextUserId + 1
        /\ ucall' = [fn |-> "createUser", email |-> email, googleId |-> ""]
        /\ uresult' = [error |-> created.result.error,
                       userId |-> IF created.result.success
                                   THEN created.result.data[1].id ELSE 0]
        /\ UNCHANGED otherThanUsers

\* Google sends a visitor back whose account has the id googleId and the
\* email address email
GoogleSignIn ==
  \E googleId \in GoogleIds, email \in Emails :
    LET done == CallbackUsers(users, nextUserId, googleId, email)
    IN  /\ nextUserId <= MaxUserId
        /\ users' = done.table
        /\ nextUserId' = IF Len(done.table) > Len(users) THEN nextUserId + 1
                         ELSE nextUserId
        /\ ucall' = [fn |-> "callback", email |-> email, googleId |-> googleId]
        /\ uresult' = [error |-> done.error, userId |-> done.userId]
        /\ UNCHANGED otherThanUsers

NextUsers == SignUp \/ GoogleSignIn

SpecUsers == Init /\ [][NextUsers]_vars

\* the Google id stored for the account with this email, "" if none
StoredUid(table, email) ==
  IF Len(UsersByEmail(table, email)) = 0 THEN ""
  ELSE UsersByEmail(table, email)[1].firebase_uid

\* C22: once a user row has a non-null firebase_uid it is never replaced by
\* a different one, and a sign-in whose Google id differs from the
\* firebase_uid stored for the account with the same email obtains no
\* session for that account.
C22_FirebaseUidNeverReplaced ==
  [][/\ \A i \in 1..Len(users) :
          users[i].firebase_uid # "" => users'[i].firebase_uid = users[i].firebase_uid
     /\ (/\ ucall'.fn = "callback"
         /\ <<users, nextUserId, ucall, uresult>>' # <<users, nextUserId, ucall, uresult>>
         /\ StoredUid(users, ucall'.email) \notin {"", ucall'.googleId})
          => uresult'.userId = 0]_vars

(***************************************************************************)
(* The heart of ImageCard and ImageModal: handleLike                       *)
(*                                                                         *)
(* The component shows image LikedImage to the user Viewer.  A call of     *)
(* handleLike is suspended at its fetch until the response is there: the   *)
(* request travels to the route, the route answers (or the fetch fails),   *)
(* and the rest of the handler runs when the response arrives.             *)
(***************************************************************************)
MaxClicks == 3

Viewer == "user-1"
LikedImage == 1

\* the request handleLike sends: DELETE when the heart was on, POST otherwise
LikeRequest(n, previousLikedState) ==
  [n |-> n, ok |-> FALSE,
   previousLikedState |-> previousLikedState,
   method |-> IF previousLikedState THEN "DELETE" ELSE "POST", stage |-> "sent"]

\* the route's request for a request of the component
RouteRequest(q) ==
  [userId |-> Viewer,
   fn |-> IF q.method = "POST" THEN "POST /api/favorites" ELSE "DELETE /api/favorites", imageId |-> LikedImage]

\* handleLike after its await: setIsLiked(previousLikedState) unless response.ok
AfterResponse(liked, q) == IF q.ok THEN liked ELSE q.previousLikedState

\* a click on the heart: handleLike up to its fetch
Click ==
  \E isAuthenticated \in BOOLEAN :
    /\ clicks < MaxClicks
    /\ images[LikedImage].exists
    /\ clicks' = clicks + 1
    /\ IF ~isAuthenticated
       THEN signInModal' = TRUE /\ UNCHANGED <<isLiked, inflight>>
       ELSE /\ isLiked' = ~isLiked
            /\ inflight' = inflight \cup {LikeRequest(clicks + 1, isLiked)}
            /\ UNCHANGED signInModal
    /\ UNCHANGED otherThanLikes

\* the route handles a request and answers it
RouteAnswers ==
  \E q \in inflight :
    /\ q.stage = "sent"
    /\ LET r == RouteRequest(q)
           inserted == InsertFavorite(favorites, nextFavoriteId, r.userId, r.imageId)
           deleted == DeleteFavorite(favorites, r.userId, r.imageId)
           response == IF q.method = "POST" THEN FavoritesPOST(r, addFavorite(inserted))
                       ELSE FavoritesDELETE(r, removeFavorite(deleted))
       IN  /\ favorites' = IF q.method = "POST" THEN inserted.table ELSE deleted.table
           /\ nextFavoriteId' = IF q.method = "POST" THEN nextFavoriteId + 1
                                ELSE nextFavoriteId
           /\ inflight' = (inflight \ {q})
                            \cup {[q EXCEPT !.stage = "answered",
                                            !.ok = response.status = 200]}
    /\ UNCHANGED <<coreVars, fcall, fresult, userVars, migVars, dupVars, galleryVars, isLiked, signInModal, clicks>>

\* the fetch fails before the route has seen the request
FetchFails ==
  \E q \in inflight :
    /\ q.stage = "sent"
    /\ inflight' = (inflight \ {q}) \cup {[q EXCEPT !.stage = "answered", !.ok = FALSE]}
    /\ UNCHANGED <<coreVars, favVars, userVars, migVars, dupVars, galleryVars, isLiked, signInModal, clicks>>

\* a response arrives and the rest of handleLike runs
ResponseArrives ==
  \E q \in inflight :
    /\ q.stage = "answered"
    /\ isLiked' = AfterResponse(isLiked, q)
    /\ inflight' = inflight \ {q}
    /\ UNCHANGED <<coreVars, favVars, userVars, migVars, dupVars, galleryVars, signInModal, clicks>>

NextLikes ==
  \/ \E file \in {PngFile} : Upload(file)
  \/ Click
  \/ RouteAnswers
  \/ FetchFails
  \/ ResponseArrives

SpecLikes == Init /\ [][NextLikes]_vars

\* C26: once every in-flight favorite request has completed, the displayed
\* isLiked equals whether the favorite of the user for the image exists on
\* the server, for any sequence of clicks, any mix of successes and
\* failures and any order of arrival.
C26_HeartMatchesServer ==
  inflight = {} => (isLiked <=> Favorited(Viewer, LikedImage))

(***************************************************************************)
(* The migration runner (scripts/migrate.ts)                               *)
(***************************************************************************)
\* String.prototype.endsWith
endsWith(s, suffix) ==
  Len(s) >= Len(suffix) /\ SubSeq(s, Len(s) - Len(suffix) + 1, Len(s)) = suffix

\* String.prototype.replace(pattern, '') with a string pattern: the first
\* occurrence is removed, a string without the pattern is returned as it is
ReplaceFirst(s, pattern) ==
  LET hits == {i \in 1..Len(s) : i + Len(pattern) - 1 <= Len(s)
                                 /\ SubSeq(s, i, i + Len(pattern) - 1) = pattern}
  IN IF hits = {} THEN s
     ELSE LET i == CHOOSE j \in hits : \A k \in hits : j <= k
          IN SubSeq(s, 1, i - 1) \o SubSeq(s, i + Len(pattern), Len(s))

\* the order of Array.prototype.sort() without a comparator: by UTF-16
\* code units, a proper prefix first
RECURSIVE StringLess(_, _)
StringLess(a, b) ==
  IF Len(a) = 0 THEN Len(b) > 0
  ELSE IF Len(b) = 0 THEN FALSE
  ELSE IF a[1] = b[1] THEN StringLess(Tail(a), Tail(b))
  ELSE charCodeAt(a[1]) < charCodeAt(b[1])

RECURSIVE SortStrings(_)
SortStrings(set) ==
  IF set = {} THEN <<>>
  ELSE LET least == CHOOSE x \in set : \A y \in set \ {x} : StringLess(x, y)
       IN <<least>> \o SortStrings(set \ {least})

\* the files taken without .sort(), in whatever order readdirSync lists them
MigrationQueueUnsorted(dir) ==
  Reverse(SortStrings({f \in dir : endsWith(f, DotSql)}))

\* fs.readdirSync(migrationsDir).filter(f => f.endsWith('.sql')).sort()
MigrationQueue(dir) == SortStrings({f \in dir : endsWith(f, DotSql)})

\* const version = file.replace('.sql', '')
Version(file) == ReplaceFirst(file, DotSql)

\* an entry of mlog: the statement, the migration file and the outcome
Sent(stmt, file, outcome) == <<stmt, file, outcome>>

\* catch (error) { throw error } finally { client.release() }
Throw ==
  /\ mpc' = "failed"
  /\ mclient' = "released"
  /\ merror' = TRUE

\* const client = await pool.connect(), run against any directory of
\* files and any database
Connect ==
  /\ mpc = "idle"
  /\ mpc' = "ensure"
  /\ mclient' = "held"
  /\ migrationsDir' \in SUBSET MigrationFiles
  /\ schemaMigrations' \in SUBSET RecordedBefore
  /\ UNCHANGED <<appliedVersions, mqueue, mtxn, mlog, merror>>
  /\ UNCHANGED otherThanMigrations

\* CREATE TABLE IF NOT EXISTS schema_migrations: the recorded versions stay
EnsureTable ==
  /\ mpc = "ensure"
  /\ \E ok \in BOOLEAN :
       IF ok
       THEN /\ mpc' = "select"
            /\ mlog' = Append(mlog, Sent("CREATE", <<>>, "ok"))
            /\ UNCHANGED <<mclient, merror>>
       ELSE /\ Throw
            /\ mlog' = Append(mlog, Sent("CREATE", <<>>, "error"))
  /\ UNCHANGED <<migrationsDir, schemaMigrations, appliedVersions, mqueue, mtxn>>
  /\ UNCHANGED otherThanMigrations

\* SELECT version FROM schema_migrations, then the directory is read,
\* filtered and sorted
SelectApplied ==
  /\ mpc = "select"
  /\ \E ok \in BOOLEAN :
       IF ok
       THEN /\ mpc' = "loop"
            /\ appliedVersions' = schemaMigrations
            /\ mqueue' = MigrationQueue(migrationsDir)
            /\ mlog' = Append(mlog, Sent("SELECT", <<>>, "ok"))
            /\ UNCHANGED <<mclient, merror>>
       ELSE /\ Throw
            /\ mlog' = Append(mlog, Sent("SELECT", <<>>, "error"))
            /\ UNCHANGED <<appliedVersions, mqueue>>
  /\ UNCHANGED <<migrationsDir, schemaMigrations, mtxn>>
  /\ UNCHANGED otherThanMigrations

\* the end of the for loop: the finally block releases the client
FinishMigrations ==
  /\ mpc = "loop"
  /\ mqueue = <<>>
  /\ mpc' = "done"
  /\ mclient' = "released"
  /\ UNCHANGED <<migrationsDir, schemaMigrations, appliedVersions, mqueue, mtxn, mlog, merror>>
  /\ UNCHANGED otherThanMigrations

\* if (appliedVersions.has(version)) continue
SkipApplied ==
  /\ mpc = "loop"
  /\ mqueue # <<>>
  /\ Version(Head(mqueue)) \in appliedVersions
  /\ mqueue' = Tail(mqueue)
  /\ UNCHANGED <<mpc, migrationsDir, schemaMigrations, appliedVersions, mtxn, mlog, mclient, merror>>
  /\ UNCHANGED otherThanMigrations

\* await client.query('BEGIN'), outside the inner try
Begin ==
  /\ mpc = "loop"
  /\ mqueue # <<>>
  /\ Version(Head(mqueue)) \notin appliedVersions
  /\ \E ok \in BOOLEAN :
       IF ok
       THEN /\ mpc' = "sql"
            /\ mtxn' = <<Head(mqueue)>>
            /\ mlog' = Append(mlog, Sent("BEGIN", Head(mqueue), "ok"))
            /\ UNCHANGED <<mclient, merror>>
       ELSE /\ Throw
            /\ mlog' = Append(mlog, Sent("BEGIN", Head(mqueue), "error"))
            /\ UNCHANGED mtxn
  /\ UNCHANGED <<migrationsDir, schemaMigrations, appliedVersions, mqueue>>
  /\ UNCHANGED otherThanMigrations

\* await client.query(sql): the statements of the file, its own INSERT INTO
\* schema_migrations included, act inside the open transaction
RunSql ==
  /\ mpc = "sql"
  /\ \E ok \in BOOLEAN :
       /\ mpc' = IF ok THEN "commit" ELSE "rollback"
       /\ mlog' = Append(mlog, Sent("SQL", Head(mqueue), IF ok THEN "ok" ELSE "error"))
  /\ UNCHANGED <<migrationsDir, schemaMigrations, appliedVersions, mqueue, mtxn, mclient, merror>>
  /\ UNCHANGED otherThanMigrations

\* await client.query('COMMIT'): the file's version row becomes visible
Commit ==
  /\ mpc = "commit"
  /\ \E ok \in BOOLEAN :
       IF ok
       THEN /\ mpc' = "loop"
            /\ schemaMigrations' = schemaMigrations \cup {Version(Head(mqueue))}
            /\ mtxn' = <<>>
            /\ mqueue' = Tail(mqueue)
            /\ mlog' = Append(mlog, Sent("COMMIT", Head(mqueue), "ok"))
       ELSE /\ mpc' = "rollback"
            /\ mlog' = Append(mlog, Sent("COMMIT", Head(mqueue), "error"))
            /\ UNCHANGED <<schemaMigrations, mtxn, mqueue>>
  /\ UNCHANGED <<migrationsDir, appliedVersions, mclient, merror>>
  /\ UNCHANGED otherThanMigrations

\* catch (error) { await client.query('ROLLBACK'); throw error }: whether
\* the statement succeeds or throws, the transaction is over, an error
\* leaves the function and the client is released
Rollback ==
  /\ mpc = "rollback"
  /\ \E ok \in BOOLEAN :
       mlog' = Append(mlog, Sent("ROLLBACK", Head(mqueue), IF ok THEN "ok" ELSE "error"))
  /\ mtxn' = <<>>
  /\ Throw
  /\ UNCHANGED <<migrationsDir, schemaMigrations, appliedVersions, mqueue>>
  /\ UNCHANGED otherThanMigrations

NextMigrations ==
  \/ Connect
  \/ EnsureTable
  \/ SelectApplied
  \/ SkipApplied
  \/ Begin
  \/ RunSql
  \/ Commit
  \/ Rollback
  \/ FinishMigrations

SpecMigrations == Init /\ [][NextMigrations]_vars

\* the files of the directory that are migrations not recorded when the run
\* read schema_migrations
Unrecorded ==
  {f \in migrationsDir : /\ SubSeq(f, Len(f) - 3, Len(f)) = DotSql
                         /\ SubSeq(f, 1, Len(f) - 4) \notin appliedVersions}

\* the files whose SQL the run has sent, and those it has committed, in the
\* order of the statements
FilesOf(stmt, outcomes) ==
  LET hits == SelectSeq(mlog, LAMBDA e : e[1] = stmt /\ e[3] \in outcomes)
  IN [i \in 1..Len(hits) |-> hits[i][2]]

Ascending(s) == \A i, j \in 1..Len(s) : i < j => StringLess(s[i], s[j])

IsPrefix(s, t) == Len(s) <= Len(t) /\ s = SubSeq(t, 1, Len(s))

\* every statement of a migration sits in a transaction of its own: BEGIN
\* right before it, and COMMIT or, after a failure, ROLLBACK right after it
OwnTransactions ==
  \A i \in 1..Len(mlog) :
    LET e == mlog[i]
        last == i = Len(mlog)
    IN /\ e[1] = "SQL" =>
            /\ i > 1 /\ mlog[i - 1] = Sent("BEGIN", e[2], "ok")
            /\ ~last => mlog[i + 1][2] = e[2]
                        /\ mlog[i + 1][1] = (IF e[3] = "ok" THEN "COMMIT" ELSE "ROLLBACK")
       /\ e[1] = "BEGIN" /\ e[3] = "ok" /\ ~last => mlog[i + 1][1] = "SQL"
       /\ e[1] = "COMMIT" =>
            /\ mlog[i - 1] = Sent("SQL", e[2], "ok")
            /\ e[3] = "error" /\ ~last => mlog[i + 1][1] = "ROLLBACK" /\ mlog[i + 1][2] = e[2]
       /\ e[1] = "ROLLBACK" \/ (e[3] = "error" /\ e[1] \notin {"SQL", "COMMIT"}) => last

\* C27: runMigrations sends the SQL of exactly the .sql files whose version
\* was not recorded, in ascending order of the file names, each between its
\* own BEGIN and COMMIT; when a statement fails the open transaction is
\* rolled back, no later migration is sent, the migrations committed before
\* stay recorded, the error leaves the function, and the client is released
\* exactly when the function has returned or thrown.
C27_RunsUnrecordedInOrder ==
  LET sent == FilesOf("SQL", {"ok", "error"})
      committed == FilesOf("COMMIT", {"ok"})
  IN /\ OwnTransactions
     /\ Ascending(sent) /\ Range(sent) \subseteq Unrecorded
     /\ IsPrefix(committed, sent) /\ Len(sent) <= Len(committed) + 1
     /\ Sent("SELECT", <<>>, "ok") \in Range(mlog)
          => schemaMigrations = appliedVersions \cup {Version(f) : f \in Range(committed)}
     /\ mpc = "done" =>
          /\ Range(committed) = Unrecorded /\ sent = committed
          /\ ~merror /\ mtxn = <<>>
     /\ mpc = "failed" =>
          /\ merror /\ mtxn = <<>>
          /\ mlog[Len(mlog)][3] = "error" \/ mlog[Len(mlog)][1] = "ROLLBACK"
          /\ Len(sent) = Len(committed) + 1 =>
               Version(sent[Len(sent)]) \notin schemaMigrations
     /\ mclient = "released" <=> mpc \in {"done", "failed"}
     /\ mclient = "none" <=> mpc = "idle"

\* a run in which the second of three unrecorded migrations failed after
\* the first was committed
C27_Witness ==
  /\ mpc = "failed"
  /\ Len(FilesOf("COMMIT", {"ok"})) = 1
  /\ Len(FilesOf("SQL", {"error"})) = 1
  /\ Cardinality(Unrecorded) = 3
  /\ mclient = "released"

(***************************************************************************)
(* The database duplication script (duplicatescript.js)                    *)
(***************************************************************************)
\* a || b on strings
OrElse(a, b) == IF a # "" THEN a ELSE b

\* sourceConfig and targetConfig, as far as they name a database; port,
\* user and password are resolved the same way
sourceConfig(env) ==
  [host |-> OrElse(env["SOURCE_DATABASE_HOST"], OrElse(env["DATABASE_HOST"], DefaultHost)),
   database |-> OrElse(env["SOURCE_DATABASE_NAME"], OrElse(env["DATABASE_NAME"], DefaultDatabase))]

targetConfig(env) ==
  [host |-> OrElse(env["TARGET_DATABASE_HOST"], DefaultHost),
   database |-> OrElse(env["TARGET_DATABASE_NAME"], DefaultDatabase)]

\* the database a pool of the configuration connects to
PoolOf(config) == <<config.host, config.database>>
SourceDb == PoolOf(sourceConfig(denv))
TargetDb == PoolOf(targetConfig(denv))

\* the environments and the database contents the script is run against
Environments ==
  {env \in [EnvNames -> {"", "localhost", "copy"}] :
     /\ \A v \in {"SOURCE_DATABASE_HOST", "DATABASE_HOST", "TARGET_DATABASE_HOST"} :
          env[v] \in {"", "localhost"}
     /\ \A v \in {"SOURCE_DATABASE_NAME", "DATABASE_NAME", "TARGET_DATABASE_NAME"} :
          env[v] \in {"", "copy"}}

LiveTables ==
  [t \in Range(TableNames) |->
     IF t = "generated_images" THEN [exists |-> TRUE, rows |-> {"image-1", "image-2"}]
     ELSE IF t = "favorites" THEN [exists |-> TRUE, rows |-> {"favorite-1"}]
     ELSE NoTable]

MigrationRows == {"010_add_original_image_storage"}

\* one statement on one table of one database
WithTable(all, db, t, table) == [all EXCEPT ![db] = [@ EXCEPT ![t] = table]]

\* node duplicatescript.js, in any environment and against any databases
StartDuplicate ==
  /\ dpc = "idle"
  /\ \E env \in Environments, contents \in [DbIds -> {NoTables, LiveTables}] :
       /\ denv' = env
       /\ dbs' = contents
       /\ dbefore' = contents
  /\ dpc' = "createGeneratedImagesTable"
  /\ UNCHANGED dtables
  /\ UNCHANGED otherThanDuplicate

\* createGeneratedImagesTable: CREATE TABLE on the target pool unless the
\* table exists
createGeneratedImagesTable ==
  /\ dpc = "createGeneratedImagesTable"
  /\ dbs' = IF dbs[TargetDb]["generated_images"].exists THEN dbs
            ELSE WithTable(dbs, TargetDb, "generated_images", [exists |-> TRUE, rows |-> {}])
  /\ dpc' = "runMigrationsOnTarget"
  /\ UNCHANGED <<denv, dbefore, dtables>>
  /\ UNCHANGED otherThanDuplicate

\* runMigrationsOnTarget: schema_migrations is created on the target pool
\* and the migrations record their versions in it
runMigrationsOnTarget ==
  /\ dpc = "runMigrationsOnTarget"
  /\ dbs' = WithTable(dbs, TargetDb, "schema_migrations",
                      [exists |-> TRUE,
                       rows |-> dbs[TargetDb]["schema_migrations"].rows \cup MigrationRows])
  /\ dpc' = "getTables"
  /\ UNCHANGED <<denv, dbefore, dtables>>
  /\ UNCHANGED otherThanDuplicate

\* getTables: the base tables of the source pool, by name
getTables ==
  /\ dpc = "getTables"
  /\ dtables' = SelectSeq(TableNames, LAMBDA t : dbs[SourceDb][t].exists)
  /\ dpc' = "createTableInTarget"
  /\ UNCHANGED <<denv, dbs, dbefore>>
  /\ UNCHANGED otherThanDuplicate

\* createTableInTarget: DROP TABLE IF EXISTS ... CASCADE and CREATE TABLE
\* on the target pool
createTableInTarget ==
  /\ dpc = "createTableInTarget"
  /\ dtables # <<>>
  /\ dbs' = WithTable(dbs, TargetDb, Head(dtables), [exists |-> TRUE, rows |-> {}])
  /\ dpc' = "copyTableData"
  /\ UNCHANGED <<denv, dbefore, dtables>>
  /\ UNCHANGED otherThanDuplicate

\* copyTableData with skipIfExists: nothing when the target table has rows
\* or the source table has none, otherwise every row of SELECT * on the
\* source pool is inserted on the target pool
copyTableData ==
  /\ dpc = "copyTableData"
  /\ LET t == Head(dtables)
         hasData == dbs[TargetDb][t].rows # {}
         rows == dbs[SourceDb][t].rows
     IN dbs' = IF hasData \/ rows = {} THEN dbs
               ELSE WithTable(dbs, TargetDb, t, [exists |-> TRUE, rows |-> rows])
  /\ dtables' = Tail(dtables)
  /\ dpc' = "createTableInTarget"
  /\ UNCHANGED <<denv, dbefore>>
  /\ UNCHANGED otherThanDuplicate

\* after the last table: syncSequences, then the pools are closed
FinishDuplicate ==
  /\ dpc = "createTableInTarget"
  /\ dtables = <<>>
  /\ dpc' = "done"
  /\ UNCHANGED <<denv, dbs, dbefore, dtables>>
  /\ UNCHANGED otherThanDuplicate

NextDuplicate ==
  \/ StartDuplicate
  \/ createGeneratedImagesTable
  \/ runMigrationsOnTarget
  \/ getTables
  \/ createTableInTarget
  \/ copyTableData
  \/ FinishDuplicate

SpecDuplicate == Init /\ [][NextDuplicate]_vars

\* C28: whatever the environment, the one without SOURCE_* and TARGET_*
\* variables included, the tables and rows of the source database stay as
\* they were when the script started, and no database but the target changes.
C28_SourceUntouched ==
  dpc # "idle" =>
    /\ dbs[SourceDb] = dbefore[SourceDb]
    /\ \A d \in DbIds \ {TargetDb} : dbs[d] = dbefore[d]

\* the same for the environments in which the two configurations name
\* different databases
C28_DistinctSourceUntouched ==
  dpc # "idle" /\ SourceDb # TargetDb =>
    /\ dbs[SourceDb] = dbefore[SourceDb]
    /\ \A d \in DbIds \ {TargetDb} : dbs[d] = dbefore[d]

\* a finished run between two different databases that copied rows
C28_DistinctWitness ==
  /\ dpc = "done"
  /\ SourceDb # TargetDb
  /\ dbefore[TargetDb] = NoTables
  /\ dbs[TargetDb]["generated_images"].rows = {"image-1", "image-2"}

(***************************************************************************)
(* The order of the steps of processUploadedImage                          *)
(***************************************************************************)
Started(task) == task.state # "notstarted"

\* C29: the two WebP conversions are started together, by the step that
\* completes BlurHash generation, which follows MIME detection, which
\* follows dimension probing; a call whose dimension probing or BlurHash
\* generation fails never starts a conversion; a failing MIME detection
\* leaves the call pending and records 'image/jpeg'.
C29_ConversionsAfterProbes ==
  [][/\ (~Started(thumbTask) /\ Started(thumbTask')) \/ (~Started(fullTask) /\ Started(fullTask'))
          => /\ thumbTask'.state = "pending" /\ fullTask'.state = "pending"
             /\ ~Started(thumbTask) /\ ~Started(fullTask)
             /\ ilocals.originalMimeType # ""
             /\ ilocals.blurhash = <<>> /\ ilocals'.blurhash = generateBlurHash(ibuf).hash
             /\ ilocals'.blurhash # <<>>
     /\ (ilocals.originalMimeType = "" /\ ilocals'.originalMimeType # "")
          => /\ ipc = "mime"
             /\ ~getImageDimensions(ibuf).threw /\ ~Fails("dimensions")
             /\ ilocals.width = getImageDimensions(ibuf).width
             /\ ilocals'.blurhash = <<>>
             /\ iresult' = Pending
             /\ ilocals'.originalMimeType =
                  (IF Fails("mime") THEN "image/jpeg" ELSE detectMimeType(ibuf))
     /\ (Fails("dimensions")' \/ getImageDimensions(ibuf').threw
         \/ Fails("blurhash")' \/ generateBlurHash(ibuf').threw)
          => ~Started(thumbTask') /\ ~Started(fullTask')
     /\ (iresult = Pending /\ iresult'.state = "rejected" /\ ~Started(thumbTask'))
          => \/ Fails("dimensions") \/ getImageDimensions(ibuf).threw
             \/ Fails("blurhash") \/ generateBlurHash(ibuf).threw
    ]_vars

\* MIME detection failed on a PNG and the call went on to return a result
\* that says image/jpeg
C29_Witness ==
  /\ Fails("mime")
  /\ ibuf = PngFile
  /\ ipc = "returned"
  /\ iresult.value[1].originalMimeType = "image/jpeg"
  /\ thumbTask.state = "fulfilled" /\ fullTask.state = "fulfilled"

(***************************************************************************)
(* Pagination of the gallery (app/gallery/page.tsx)                        *)
(***************************************************************************)
\* the cache of the QueryClient holds the queries observed so far, by key:
\* a query is fetching without data ("loading"), has failed ("error"), or
\* holds a response whose pagination.hasMore is true ("more") or false
\* ("last"); the cache of a new QueryClient is empty
StateOf(cache, key) == IF key \in DOMAIN cache THEN cache[key] ELSE "none"

\* what a render reads from useQuery for the current key
isLoading == StateOf(queries, <<searchQuery, currentPage>>) = "loading"
hasMore == StateOf(queries, <<searchQuery, currentPage>>) = "more"

\* useQuery on a key: a query without data starts fetching
Observe(cache, key) ==
  IF StateOf(cache, key) \in {"none", "error"}
  THEN [k \in DOMAIN cache \cup {key} |-> IF k = key THEN "loading" ELSE cache[k]]
  ELSE cache

\* the gallery has rendered
Mounted == windows # <<>>

\* the first render of GalleryContent: page 0 of the search of the URL
MountGallery ==
  /\ ~Mounted
  /\ \E q \in Searches :
       /\ searchQuery' = q
       /\ queries' = Observe(queries, <<q, 0>>)
  /\ windows' = <<getLimitAndOffset(0)>>
  /\ UNCHANGED currentPage
  /\ UNCHANGED otherThanGallery

\* the fetch of a query settles: the server answers with or without more
\* images to come, or fetchImages throws
QuerySettles ==
  /\ \E key \in QueryKeys, outcome \in {"more", "last", "error"} :
       /\ StateOf(queries, key) = "loading"
       /\ queries' = [queries EXCEPT ![key] = outcome]
  /\ UNCHANGED <<currentPage, searchQuery, windows>>
  /\ UNCHANGED otherThanGallery

\* loadNextPage, and the render that follows it
loadNextPage ==
  /\ Mounted
  /\ currentPage < MaxPage
  /\ IF isLoading \/ ~hasMore
     THEN UNCHANGED <<currentPage, queries, windows>>
     ELSE /\ currentPage' = currentPage + 1
          /\ queries' = Observe(queries, <<searchQuery, currentPage + 1>>)
          /\ windows' = Append(windows, getLimitAndOffset(currentPage + 1))
  /\ UNCHANGED searchQuery
  /\ UNCHANGED otherThanGallery

\* the q parameter changes: one render still uses the old page with the new
\* search, then the effect resets the pagination
ChangeSearch ==
  /\ Mounted
  /\ \E q \in Searches \ {searchQuery} :
       /\ searchQuery' = q
       /\ queries' = Observe(Observe(queries, <<q, currentPage>>), <<q, 0>>)
  /\ currentPage' = 0
  /\ windows' = <<getLimitAndOffset(0)>>
  /\ UNCHANGED otherThanGallery

NextGallery == MountGallery \/ QuerySettles \/ loadNextPage \/ ChangeSearch

SpecGallery == Init /\ [][NextGallery]_vars

\* C30: page 0 asks for 30 images at offset 0 and page n >= 1 for 50 images
\* at offset 30 + 50 * (n - 1), so every page starts where the one before
\* it ended; the page changes only by the reset to 0 or, by one, when the
\* current query is not loading and its response said hasMore.
C30_PagesAreContiguous ==
  /\ [](/\ Mounted => Len(windows) = currentPage + 1
        /\ \A i \in 1..Len(windows) :
             LET n == i - 1
             IN /\ n = 0 => windows[i].limit = 30 /\ windows[i].offset = 0
                /\ n >= 1 => windows[i].limit = 50 /\ windows[i].offset = 30 + 50 * (n - 1)
        /\ \A i \in 1..(Len(windows) - 1) :
             windows[i + 1].offset = windows[i].offset + windows[i].limit)
  /\ [][currentPage' # currentPage =>
          \/ currentPage' = 0 /\ searchQuery' # searchQuery
          \/ /\ currentPage' = currentPage + 1
             /\ searchQuery' = searchQuery
             /\ <<searchQuery, currentPage>> \in DOMAIN queries
             /\ queries[<<searchQuery, currentPage>>] = "more"]_vars

\* the third page has been reached and its query has answered
C30_Witness ==
  /\ currentPage = 2
  /\ windows[3].offset = 80
  /\ StateOf(queries, <<searchQuery, 2>>) = "more"
====
